---------------------------- MODULE Spec2Model ----------------------------
(***************************************************************************)
(* Model of the Milvus index advisor (src/tools/index_advisor/advisor.py). *)
(*                                                                         *)
(* IndexAdvisor.recommend is modelled as a call that runs on an explicit   *)
(* call stack: one frame per Python function invocation, one action per    *)
(* method.  The builders _recommend_hnsw / _recommend_ivf_flat /           *)
(* _recommend_ivf_pq compute their alternatives by calling other builders, *)
(* so the stack is what decides whether a call returns.                    *)
(*                                                                         *)
(* Python floats are modelled as exact rationals over fixed denominators:  *)
(*   memory_gb          numerator in 1/100 byte   (value / (100 * 2^30) GB)*)
(*   build_time_min     numerator in 1/72,000,000 minute                   *)
(*   query_latency_p95  numerator in 1/2,000,000 ms (+ 5*log10(N) term)    *)
(*   recall, confidence in 1/100                                           *)
(* Numerators exceed 32 bits, so they are kept as signed numbers in        *)
(* base-1000 limbs (Big).                                                  *)
(***************************************************************************)
EXTENDS Integers, Sequences, FiniteSets, TLC

VARIABLES advisors, clients, call, mig, cap, val, ckpt, pop

vars == <<advisors, clients, call, mig, cap, val, ckpt, pop>>

-----------------------------------------------------------------------------
(* Exact arithmetic on numbers wider than 32 bits.                         *)

Base == 10 * 10 * 10

Abs(n) == IF n < 0 THEN -n ELSE n

Sgn(n) == IF n < 0 THEN -1 ELSE IF n = 0 THEN 0 ELSE 1

RECURSIVE Limbs(_)
Limbs(n) == IF n = 0 THEN <<>> ELSE <<n % Base>> \o Limbs(n \div Base)

Big(n) == [sg |-> Sgn(n), mag |-> Limbs(Abs(n))]

RECURSIVE MagMul(_, _, _)
MagMul(m, k, carry) ==
    IF m = <<>> THEN Limbs(carry)
    ELSE LET t == Head(m) * k + carry
         IN  <<t % Base>> \o MagMul(Tail(m), k, t \div Base)

RECURSIVE MagAdd(_, _, _)
MagAdd(a, b, carry) ==
    IF a = <<>> /\ b = <<>> THEN Limbs(carry)
    ELSE LET x == IF a = <<>> THEN 0 ELSE Head(a)
             y == IF b = <<>> THEN 0 ELSE Head(b)
             t == x + y + carry
         IN  <<t % Base>> \o MagAdd(IF a = <<>> THEN a ELSE Tail(a),
                                    IF b = <<>> THEN b ELSE Tail(b),
                                    t \div Base)

(* m * k for k >= 0: k is split at 10^6 so that no limb product overflows *)
MagMulInt(m, k) ==
    IF k < 10 ^ 6 THEN MagMul(m, k, 0)
    ELSE MagAdd(MagMul(m, k % 10 ^ 6, 0),
                <<0, 0>> \o MagMul(m, k \div 10 ^ 6, 0), 0)

(* x * k for an integer k *)
BigMul(x, k) ==
    IF k = 0 \/ x.sg = 0 THEN Big(0)
    ELSE [sg |-> x.sg * Sgn(k), mag |-> MagMulInt(x.mag, Abs(k))]

RECURSIVE MagLess(_, _)
MagLess(a, b) ==
    IF Len(a) # Len(b) THEN Len(a) < Len(b)
    ELSE IF a = <<>> THEN FALSE
    ELSE LET n == Len(a)
         IN  IF a[n] # b[n] THEN a[n] < b[n]
             ELSE MagLess(SubSeq(a, 1, n - 1), SubSeq(b, 1, n - 1))

BigLess(x, y) ==
    IF x.sg # y.sg THEN x.sg < y.sg
    ELSE IF x.sg = 0 THEN FALSE
    ELSE IF x.sg = 1 THEN MagLess(x.mag, y.mag)
    ELSE MagLess(y.mag, x.mag)

(* sum of two non-negative numbers *)
BigAdd(x, y) ==
    LET m == MagAdd(x.mag, y.mag, 0)
    IN  [sg |-> IF m = <<>> THEN 0 ELSE 1, mag |-> m]

(* int(math.sqrt(n)) for n >= 0, by bisection on lo <= sqrt(n) < hi *)
RECURSIVE SqrtIn(_, _, _)
SqrtIn(n, lo, hi) ==
    IF hi - lo <= 1 THEN lo
    ELSE LET mid == (lo + hi) \div 2
         IN  IF mid * mid <= n THEN SqrtIn(n, mid, hi) ELSE SqrtIn(n, lo, mid)

ISqrt(n) == SqrtIn(n, 0, 2 * 10 ^ 4)

Max(a, b) == IF a > b THEN a ELSE b

Min(a, b) == IF a < b THEN a ELSE b

(* one GiB, in bytes: 1024**3 *)
GiB == 2 ^ 30

-----------------------------------------------------------------------------
(* Program constants of the decision tree.                                 *)

FlatThreshold == 10000

DiskAnnThreshold == 100000000

LatencyThreshold == 30

QpsThreshold == 5000

DefaultM == 16

AltDiskAnnLatency == 100

-----------------------------------------------------------------------------
(* class IndexType, class UseCase and the params dict.                      *)

IndexType ==
    {"FLAT", "HNSW", "IVF_FLAT", "IVF_SQ8", "IVF_PQ", "DISK_ANN",
     "GPU_IVF_FLAT", "GPU_IVF_PQ"}

(* A params dict is a set of <<key, value>> pairs with unique keys. *)
Param(params, key) == (CHOOSE kv \in params : kv[1] = key)[2]

HasParam(params, key) == \E kv \in params : kv[1] = key

(* params.get(key, default) *)
ParamGet(params, key, default) ==
    IF HasParam(params, key) THEN Param(params, key) ELSE default

-----------------------------------------------------------------------------
(* Helper methods: parameter calculators and cost models.                  *)

(* The degree buckets with inclusive upper bounds. *)
CalculateHnswMInclusive(num_vectors) ==
    IF num_vectors <= 100000 THEN 8
    ELSE IF num_vectors <= 1000000 THEN 16
    ELSE IF num_vectors <= 10000000 THEN 24
    ELSE 32

_calculate_hnsw_m(num_vectors) ==
    IF num_vectors < 100000 THEN 8
    ELSE IF num_vectors < 1000000 THEN 16
    ELSE IF num_vectors < 10000000 THEN 24
    ELSE 32

(* The first of 4, 8, 16, 32 that divides dimensions, else 8. *)
CalculatePqMSmallestFirst(dimensions) ==
    IF dimensions % 4 = 0 THEN 4
    ELSE IF dimensions % 8 = 0 THEN 8
    ELSE IF dimensions % 16 = 0 THEN 16
    ELSE IF dimensions % 32 = 0 THEN 32
    ELSE 8

_calculate_pq_m(dimensions) ==
    IF dimensions % 32 = 0 THEN 32
    ELSE IF dimensions % 16 = 0 THEN 16
    ELSE IF dimensions % 8 = 0 THEN 8
    ELSE IF dimensions % 4 = 0 THEN 4
    ELSE 8

(* bytes_per_vector = dimensions * 4 + M * 2 * 1.2; in 1/100 byte this is   *)
(* 400 * dimensions + 240 * M.  Result: total_bytes, in 1/100 byte.         *)
_estimate_hnsw_memory(num_vectors, dimensions, M) ==
    LET bytes_per_vector == 400 * dimensions + 240 * M
    IN  BigMul(Big(num_vectors), bytes_per_vector)

(* base_time = num_vectors / 100000; result in 1/72,000,000 minute:         *)
(* base_time is 720 * num_vectors, and 3 * (M / 16) * 720 = 135 * M.        *)
_estimate_build_time(num_vectors, dimensions, index_type, params) ==
    IF index_type = "HNSW"
    THEN BigMul(Big(num_vectors), 135 * ParamGet(params, "M", 16))
    ELSE IF index_type = "IVF_FLAT" THEN BigMul(Big(num_vectors), 720 * 2)
    ELSE IF index_type = "IVF_PQ" THEN BigMul(Big(num_vectors), 720 * 3)
    ELSE BigMul(Big(num_vectors), 720)

(* A latency is num / 2,000,000 ms, plus 5 * log10(log10_of) ms when        *)
(* log10_of > 0 (the logarithm is kept symbolic).                           *)
Latency(num, log10_of) == [num |-> num, log10_of |-> log10_of]

(* HNSW: 10 + log10(N) * 5 + (ef / 64) * 10; IVF_FLAT: 15 + (nprobe/32)*20 *)
_estimate_latency(num_vectors, index_type, params) ==
    IF index_type = "HNSW"
    THEN Latency(Big(20000000 + ParamGet(params, "ef", 64) * 312500),
                 num_vectors)
    ELSE IF index_type = "IVF_FLAT"
    THEN Latency(Big(30000000 + ParamGet(params, "nprobe", 32) * 1250000), 0)
    ELSE Latency(Big(40000000), 0)

(* A reason is a fixed text with at most one formatted number in it. *)
Reason(text, arg) == [text |-> text, arg |-> arg]

Recommendation(index_type, params, memory_gb, build_time_min, query_latency_p95, recall_at_10, reason, confidence, alternatives) ==
    [index_type |-> index_type, params |-> params, memory_gb |-> memory_gb,
     build_time_min |-> build_time_min,
     query_latency_p95 |-> query_latency_p95, recall_at_10 |-> recall_at_10,
     reason |-> reason, confidence |-> confidence,
     alternatives |-> alternatives]

(* num_vectors * dimensions * 4 bytes, scaled by pct / 100, in 1/100 byte *)
RawVectorBytes(num_vectors, dimensions, pct) ==
    BigMul(Big(num_vectors), dimensions * 4 * pct)

-----------------------------------------------------------------------------
(* The values the builders return.  The alternatives are computed by the    *)
(* callee frames (see the actions) and passed in here.                      *)

HnswValue(num_vectors, dimensions, alternatives) ==
    LET M == _calculate_hnsw_m(num_vectors)
        ef_construction == M * 15
        ef == M * 4
    IN  Recommendation("HNSW",
            {<<"M", M>>, <<"efConstruction", ef_construction>>, <<"ef", ef>>},
            _estimate_hnsw_memory(num_vectors, dimensions, M),
            _estimate_build_time(num_vectors, dimensions, "HNSW", {<<"M", M>>}),
            _estimate_latency(num_vectors, "HNSW", {<<"ef", ef>>}),
            95,
            Reason("Low latency requirement (<30ms) with sufficient memory",
                   Big(0)),
            92, alternatives)

IvfFlatValue(num_vectors, dimensions, alternatives) ==
    LET nlist == Max(128, Min(ISqrt(num_vectors), 16384))
        nprobe == Max(16, (nlist * 10) \div 100)
    IN  Recommendation("IVF_FLAT",
            {<<"nlist", nlist>>, <<"nprobe", nprobe>>},
            RawVectorBytes(num_vectors, dimensions, 110),
            BigMul(Big(num_vectors), 720 * 2),
            Latency(BigAdd(Big(20000000), BigMul(Big(num_vectors), 10)), 0),
            98,
            Reason("Balanced performance and memory usage", Big(0)),
            88, alternatives)

IvfPqValue(num_vectors, dimensions, alternatives) ==
    LET nlist == Max(128, Min(ISqrt(num_vectors), 16384))
        m == _calculate_pq_m(dimensions)
        nbits == 8
        nprobe == Max(32, (nlist * 15) \div 100)
        memory_gb == RawVectorBytes(num_vectors, dimensions, 25)
    IN  Recommendation("IVF_PQ",
            {<<"nlist", nlist>>, <<"m", m>>, <<"nbits", nbits>>,
             <<"nprobe", nprobe>>},
            memory_gb,
            BigMul(Big(num_vectors), 900 * 3),
            Latency(BigAdd(Big(30000000), BigMul(Big(num_vectors), 12)), 0),
            90,
            Reason("Memory budget (%.1f GB) requires compression", memory_gb),
            85, alternatives)

(* A DISK_ANN builder that computes an alternative of its own. *)
DiskannValueNested(num_vectors, dimensions, latency_requirement_ms) ==
    LET search_list_size ==
            Sgn(latency_requirement_ms) * (Abs(latency_requirement_ms) \div 2)
        ivf_pq == IvfPqValue(num_vectors, dimensions, <<>>)
    IN  Recommendation("DISK_ANN",
            {<<"search_list_size", search_list_size>>},
            BigMul(Big(num_vectors), 100 * 100),
            BigMul(Big(num_vectors), 1440 * 5),
            Latency(Big(latency_requirement_ms * 3000000), 0),
            92,
            Reason("Billion-scale dataset (%d vectors)", Big(num_vectors)),
            90, <<ivf_pq>>)

(* int(latency_requirement_ms / 2) truncates towards zero *)
DiskannValue(num_vectors, dimensions, latency_requirement_ms) ==
    LET search_list_size ==
            Sgn(latency_requirement_ms) * (Abs(latency_requirement_ms) \div 2)
    IN  Recommendation("DISK_ANN",
            {<<"search_list_size", search_list_size>>},
            BigMul(Big(num_vectors), 100 * 100),
            BigMul(Big(num_vectors), 1440 * 5),
            Latency(Big(latency_requirement_ms * 3000000), 0),
            92,
            Reason("Billion-scale dataset (%d vectors)", Big(num_vectors)),
            90, <<>>)

(* _recommend_flat with recall given in percent instead of as a fraction *)
FlatValueRecallPercent(num_vectors, dimensions) ==
    Recommendation("FLAT", {},
        RawVectorBytes(num_vectors, dimensions, 100),
        Big(7200000),
        Latency(Big(10000000), 0),
        100 * 100,
        Reason("Small dataset (%d vectors) - brute force optimal",
               Big(num_vectors)),
        99, <<>>)

FlatValue(num_vectors, dimensions) ==
    Recommendation("FLAT", {},
        RawVectorBytes(num_vectors, dimensions, 100),
        Big(7200000),
        Latency(Big(10000000), 0),
        100,
        Reason("Small dataset (%d vectors) - brute force optimal",
               Big(num_vectors)),
        99, <<>>)

IvfSq8Value(num_vectors, dimensions) ==
    LET nlist == ISqrt(num_vectors)
    IN  Recommendation("IVF_SQ8",
            {<<"nlist", nlist>>, <<"nprobe", Max(16, (nlist * 10) \div 100)>>},
            RawVectorBytes(num_vectors, dimensions, 60),
            BigMul(Big(num_vectors), 2000),
            Latency(BigAdd(Big(24000000), BigMul(Big(num_vectors), 11)), 0),
            95,
            Reason("Good balance of memory and accuracy", Big(0)),
            87, <<>>)

(* Variant of GpuIvfValue that probes 128 lists. *)
GpuIvfValueWideProbe(num_vectors, dimensions, memory_budget_gb) ==
    Recommendation("GPU_IVF_FLAT",
        {<<"nlist", ISqrt(num_vectors)>>, <<"nprobe", 128>>},
        RawVectorBytes(num_vectors, dimensions, 120),
        BigMul(Big(num_vectors), 144),
        Latency(Big(10000000), 0),
        98,
        Reason("High QPS requirement with GPU available", Big(0)),
        91, <<>>)

GpuIvfValue(num_vectors, dimensions, memory_budget_gb) ==
    Recommendation("GPU_IVF_FLAT",
        {<<"nlist", ISqrt(num_vectors)>>, <<"nprobe", 64>>},
        RawVectorBytes(num_vectors, dimensions, 120),
        BigMul(Big(num_vectors), 144),
        Latency(Big(10000000), 0),
        98,
        Reason("High QPS requirement with GPU available", Big(0)),
        91, <<>>)

-----------------------------------------------------------------------------
(* Inputs.  A requirement is the argument list of recommend.               *)

Requirement(num_vectors, dimensions, latency_requirement_ms, memory_budget_gb, qps_target, use_case, has_gpu) ==
    [num_vectors |-> num_vectors, dimensions |-> dimensions,
     latency_requirement_ms |-> latency_requirement_ms,
     memory_budget_gb |-> memory_budget_gb, qps_target |-> qps_target,
     use_case |-> use_case, has_gpu |-> has_gpu]

NumVectorsValues ==
    {-1, 0, 9999, 10000, 500000, 2000000, 26214400, 100000000, 100000001}

DimensionsValues == {0, 101, 400, 768}

LatencyValues == {0, 20, 30, 50}

MemoryBudgetValues == {0, 1, 4, 20, 28, 50, 64}

QpsValues == {100, 5000, 8000}

UseCaseValues == {"general", "RAG/QA System"}

(* Requirements on the bucket boundaries of the parameter formulas: the    *)
(* collection sizes where the HNSW degree changes, dimensions that 32, 16, *)
(* 8 or only 4 divide, or that are large enough for a small collection to  *)
(* exceed its memory budget, and a large collection of short vectors,      *)
(* where the graph links outweigh the vectors.                             *)
BoundaryRequirements ==
    {Requirement(n, 768, 20, 64, 100, "general", FALSE) :
        n \in {99999, 100000, 999999, 1000000, 9999999, 10000000}}
    \cup {Requirement(n, d, 50, 1, 100, "general", FALSE) :
            n \in {10000, 26214400, 100000000}, d \in {8, 100, 65536}}
    \cup {Requirement(100000000, 8, 20, b, 100, "general", FALSE) :
            b \in {9, 16}}

Requirements ==
    {Requirement(n, d, l, b, q, u, g) :
        n \in NumVectorsValues, d \in DimensionsValues, l \in LatencyValues,
        b \in MemoryBudgetValues, q \in QpsValues, u \in UseCaseValues,
        g \in BOOLEAN}
    \cup BoundaryRequirements

(* The requirements two concurrent callers draw from. *)
SharedRequirements ==
    {Requirement(n, 768, x[1], x[2], 8000, u, x[3]) :
        n \in {9999, 500000, 2000000, 100000001},
        x \in {<<20, 64, FALSE>>, <<50, 1, FALSE>>, <<50, 4, FALSE>>,
               <<50, 64, TRUE>>},
        u \in UseCaseValues}

Advisors == {"a1", "a2"}

(* Depth of the Python call stack at which the interpreter raises           *)
(* RecursionError instead of entering one more frame.                       *)
RecursionLimit == 5

-----------------------------------------------------------------------------
(* State.                                                                   *)
(*   advisors[a]  the three model dicts IndexAdvisor.__init__ loads         *)
(*   clients      the callers of this run                                   *)
(*   call[c]      caller c's call of recommend: its stack of frames, the    *)
(*                locals of recommend, and how it ended                     *)

NoRequirement == Requirement(0, 0, 0, 0, 0, "general", FALSE)

NoRecommendation ==
    Recommendation("none", {}, Big(0), Big(0), Latency(Big(0), 0), 0,
                   Reason("", Big(0)), 0, <<>>)

(* The locals a builder assigns before it computes its alternatives. *)
Locals(rec) ==
    [computed |-> TRUE, params |-> rec.params, memory_gb |-> rec.memory_gb,
     build_time_min |-> rec.build_time_min,
     latency_p95 |-> rec.query_latency_p95, recall |-> rec.recall_at_10]

NoLocals == [Locals(NoRecommendation) EXCEPT !.computed = FALSE]

Frame(fn, num_vectors, dimensions, latency_requirement_ms, memory_budget_gb) ==
    [fn |-> fn, num_vectors |-> num_vectors, dimensions |-> dimensions,
     latency_requirement_ms |-> latency_requirement_ms,
     memory_budget_gb |-> memory_budget_gb, locals |-> NoLocals,
     alternatives |-> <<>>]

IdleCall ==
    [pc |-> "idle", self |-> "a1", req |-> NoRequirement, stack |-> <<>>,
     selected |-> "none", hnsw_memory |-> Big(0),
     result |-> NoRecommendation, exc |-> "none"]

(* IndexAdvisor.__init__ *)
NewAdvisor == [memory_models |-> {}, latency_models |-> {}, build_models |-> {}]

Inputs == IF Cardinality(clients) = 1 THEN Requirements ELSE SharedRequirements

Top(c) == call[c].stack[Len(call[c].stack)]

Running(c, fn) ==
    /\ c \in clients
    /\ call[c].pc = "running"
    /\ call[c].stack # <<>>
    /\ Top(c).fn = fn

(* The top frame assigns its locals. *)
Assign(cr, locals) == [cr EXCEPT !.stack[Len(cr.stack)].locals = locals]

(* Enter one more frame, or raise RecursionError when the stack is full.    *)
(* Nothing in advisor.py catches the error: it unwinds the whole call.      *)
Invoke(cr, frame) ==
    IF Len(cr.stack) >= RecursionLimit
    THEN [cr EXCEPT !.pc = "raised", !.stack = <<>>, !.exc = "RecursionError"]
    ELSE [cr EXCEPT !.stack = Append(@, frame)]

(* Return rec from the top frame.  recommend returns its builder's value    *)
(* unchanged; a builder appends it to the alternatives it is collecting.    *)
Return(cr, rec) ==
    LET n == Len(cr.stack)
        caller == cr.stack[n - 1]
    IN  IF caller.fn = "recommend"
        THEN [cr EXCEPT !.pc = "returned", !.stack = <<>>, !.result = rec]
        ELSE [cr EXCEPT !.stack =
                Append(SubSeq(@, 1, n - 2),
                       [caller EXCEPT !.alternatives = Append(@, rec)])]

-----------------------------------------------------------------------------
(* IndexAdvisor.recommend: the decision tree.                               *)

(* x GB, in 1/100 byte *)
Gb(x) == BigMul(Big(GiB), 100 * x)

(* a < b * tenths / 10 and a * tenths / 10 > b, on exact numbers *)
LessThanTenths(a, b, tenths) == BigLess(BigMul(a, 10), BigMul(b, tenths))

(* The probe as it would be with the graph degree of the size bucket. *)
HnswMemoryProbeBucket(num_vectors, dimensions) ==
    _estimate_hnsw_memory(num_vectors, dimensions,
                          _calculate_hnsw_m(num_vectors))

(* hnsw_memory = self._estimate_hnsw_memory(num_vectors, dimensions): the   *)
(* call passes no M, so the estimator's default applies.                    *)
HnswMemoryProbe(num_vectors, dimensions) ==
    _estimate_hnsw_memory(num_vectors, dimensions, DefaultM)

(* The six rules as a list: rule i's condition and its builder.  Rule 6 is  *)
(* split into its IVF_SQ8 condition (6) and its unconditional else (7).     *)
RuleMatches(req, i) ==
    LET probe == _estimate_hnsw_memory(req.num_vectors, req.dimensions, 16)
        budget == Gb(req.memory_budget_gb)
    IN  CASE i = 1 -> req.num_vectors < 10000
          [] i = 2 -> req.num_vectors > 100000000
          [] i = 3 -> /\ req.latency_requirement_ms < 30
                      /\ LessThanTenths(probe, budget, 8)
          [] i = 4 -> req.qps_target > 5000 /\ req.has_gpu
          [] i = 5 -> LessThanTenths(budget, probe, 5)
          [] i = 6 -> LessThanTenths(budget, probe, 7)
          [] i = 7 -> TRUE

RuleBuilder(i) ==
    CASE i = 1 -> "_recommend_flat"
      [] i = 2 -> "_recommend_diskann"
      [] i = 3 -> "_recommend_hnsw"
      [] i = 4 -> "_recommend_gpu_ivf"
      [] i = 5 -> "_recommend_ivf_pq"
      [] i = 6 -> "_recommend_ivf_sq8"
      [] i = 7 -> "_recommend_ivf_flat"

(* The builder of the first rule of `order` that matches. *)
FirstMatch(req, order) ==
    LET k == CHOOSE j \in 1..Len(order) :
                 /\ RuleMatches(req, order[j])
                 /\ \A h \in 1..(j - 1) : ~RuleMatches(req, order[h])
    IN  RuleBuilder(order[k])

(* Decision trees with one slip each. *)
DecideSq8First(req) == FirstMatch(req, <<1, 2, 3, 4, 6, 5, 7>>)

DecideHnswFirst(req) == FirstMatch(req, <<3, 1, 2, 4, 5, 6, 7>>)

DecideGpuFirst(req) == FirstMatch(req, <<1, 2, 4, 3, 5, 6, 7>>)

DecideInclusive(req) ==
    IF req.num_vectors <= 10000 THEN "_recommend_flat"
    ELSE IF req.num_vectors >= 100000000 THEN "_recommend_diskann"
    ELSE FirstMatch(req, <<3, 4, 5, 6, 7>>)

DecideInclusiveBudget(req) ==
    IF RuleMatches(req, 1) \/ RuleMatches(req, 2) \/ RuleMatches(req, 3)
       \/ RuleMatches(req, 4)
    THEN FirstMatch(req, <<1, 2, 3, 4>>)
    ELSE IF ~LessThanTenths(_estimate_hnsw_memory(req.num_vectors,
                                req.dimensions, 16),
                            Gb(req.memory_budget_gb), 20)
         THEN "_recommend_ivf_pq"
    ELSE FirstMatch(req, <<6, 7>>)

(* The builder recommend returns through. *)
(* A decision tree that leaves the GPU rule out for one use case. *)
DecideByUseCase(req) ==
    IF req.use_case = "RAG/QA System"
    THEN FirstMatch(req, <<1, 2, 3, 5, 6, 7>>)
    ELSE FirstMatch(req, <<1, 2, 3, 4, 5, 6, 7>>)

Decide(req) ==
    LET hnsw_memory == HnswMemoryProbe(req.num_vectors, req.dimensions)
        memory_budget == Gb(req.memory_budget_gb)
    IN  IF req.num_vectors < FlatThreshold THEN "_recommend_flat"
        ELSE IF req.num_vectors > DiskAnnThreshold THEN "_recommend_diskann"
        ELSE IF /\ req.latency_requirement_ms < LatencyThreshold
                /\ LessThanTenths(hnsw_memory, memory_budget, 8)
             THEN "_recommend_hnsw"
        ELSE IF req.qps_target > QpsThreshold /\ req.has_gpu
             THEN "_recommend_gpu_ivf"
        ELSE IF LessThanTenths(memory_budget, hnsw_memory, 5)
             THEN "_recommend_ivf_pq"
        ELSE IF LessThanTenths(memory_budget, hnsw_memory, 7)
             THEN "_recommend_ivf_sq8"
        ELSE "_recommend_ivf_flat"

(* The family each builder constructs. *)
FamilyOf(fn) ==
    CASE fn = "_recommend_flat" -> "FLAT"
      [] fn = "_recommend_diskann" -> "DISK_ANN"
      [] fn = "_recommend_hnsw" -> "HNSW"
      [] fn = "_recommend_gpu_ivf" -> "GPU_IVF_FLAT"
      [] fn = "_recommend_ivf_pq" -> "IVF_PQ"
      [] fn = "_recommend_ivf_sq8" -> "IVF_SQ8"
      [] fn = "_recommend_ivf_flat" -> "IVF_FLAT"

-----------------------------------------------------------------------------
(* Actions.                                                                 *)

(* The migration tool, Weaviate to Milvus (milvus_migrate.py).  mig holds  *)
(* what outlives a run of the tool (the source class, the destination       *)
(* collection, the checkpoint file) and the state of the current run (its   *)
(* MigrationStats and the locals of the batch generator).  The source class *)
(* holds the objects 0 .. source - 1 and is listed in that order.           *)

(* Largest number of objects in the source class. *)
MaxVectors == 3

(* Number of runs of the tool, the first one and the reruns. *)
MaxRuns == 3

BatchSizes == {1, 2}

Ids == 0..(MaxVectors - 1)

(* The checkpoint file does not exist. *)
NoCheckpoint == -1

(* SourceType *)
MigrationSources == {"pinecone", "weaviate", "qdrant"}

NewMigration(source, batch_size) ==
    [source |-> source, batch_size |-> batch_size, collection |-> FALSE,
     dest |-> [id \in Ids |-> 0], checkpoint |-> NoCheckpoint,
     pc |-> "idle", resume |-> FALSE, total_vectors |-> 0,
     migrated_vectors |-> 0, failed_vectors |-> 0, offset |-> 0,
     batch |-> {}, runs |-> 0, done |-> FALSE,
     source_type |-> "weaviate", dry_run |-> FALSE, dest_client |-> FALSE,
     fetched |-> 0]

(* The file holds the offset of this migration, or there is no file. *)
_load_checkpoint == IF mig.checkpoint = NoCheckpoint THEN 0 ELSE mig.checkpoint

_save_checkpoint(m, offset) == [m EXCEPT !.checkpoint = offset]

_cleanup_checkpoint(m) == [m EXCEPT !.checkpoint = NoCheckpoint]

(* Variant of MigrationRun that looks at dry_run only after the            *)
(* destination collection has been prepared.                               *)
MigrationRunLateDryRun(resume, answer, dry_run) ==
    LET stats == [mig EXCEPT !.runs = @ + 1, !.resume = resume,
                             !.dry_run = dry_run, !.dest_client = TRUE,
                             !.total_vectors = mig.source,
                             !.migrated_vectors = 0, !.failed_vectors = 0,
                             !.fetched = 0, !.batch = {}]
    IN  IF mig.collection /\ ~resume /\ answer # "yes"
        THEN stats
        ELSE [stats EXCEPT
                !.collection = TRUE,
                !.dest = IF mig.collection /\ ~resume
                         THEN [id \in Ids |-> 0] ELSE @,
                !.offset = IF resume THEN _load_checkpoint ELSE 0,
                !.pc = IF dry_run THEN "idle" ELSE "fetch"]

(* One run of the tool up to the migration loop: fresh MigrationStats, the *)
(* object count, the destination collection (kept under --resume, dropped   *)
(* and recreated otherwise if the user answers yes), the starting offset.   *)
(* The three migrate_from_* methods share this course: a fresh tool object *)
(* (MigrationStats at zero, dest_client None), the source is analysed, and  *)
(* with dry_run the method returns here.  Otherwise the MilvusClient is     *)
(* created and the collection prepared as described above.                  *)
MigrationRun(resume, answer, dry_run) ==
    LET stats == [mig EXCEPT !.runs = @ + 1, !.resume = resume,
                             !.dry_run = dry_run, !.dest_client = FALSE,
                             !.total_vectors = mig.source,
                             !.migrated_vectors = 0, !.failed_vectors = 0,
                             !.fetched = 0, !.batch = {}]
        connected == [stats EXCEPT !.dest_client = TRUE]
    IN  IF dry_run
        THEN stats
        ELSE IF mig.collection /\ ~resume /\ answer # "yes"
        THEN connected
        ELSE [connected EXCEPT
                !.collection = TRUE,
                !.dest = IF mig.collection /\ ~resume
                         THEN [id \in Ids |-> 0] ELSE @,
                !.offset = IF resume THEN _load_checkpoint ELSE 0,
                !.pc = "fetch"]

MigrateFromPinecone(resume, answer, dry_run) ==
    /\ mig.source_type = "pinecone"
    /\ mig.pc = "idle" /\ ~mig.done /\ mig.runs < MaxRuns
    /\ mig' = MigrationRun(resume, answer, dry_run)
    /\ UNCHANGED <<advisors, clients, call, cap, val, ckpt, pop>>

MigrateFromWeaviate(resume, answer, dry_run) ==
    /\ mig.source_type = "weaviate"
    /\ mig.pc = "idle" /\ ~mig.done /\ mig.runs < MaxRuns
    /\ mig' = MigrationRun(resume, answer, dry_run)
    /\ UNCHANGED <<advisors, clients, call, cap, val, ckpt, pop>>

MigrateFromQdrant(resume, answer, dry_run) ==
    /\ mig.source_type = "qdrant"
    /\ mig.pc = "idle" /\ ~mig.done /\ mig.runs < MaxRuns
    /\ mig' = MigrationRun(resume, answer, dry_run)
    /\ UNCHANGED <<advisors, clients, call, cap, val, ckpt, pop>>

(* The loop is over: the run completes and, under --resume, removes the    *)
(* checkpoint file.                                                         *)
LoopEnd(m) ==
    LET ended == [m EXCEPT !.batch = {}, !.pc = "idle", !.done = TRUE]
    IN  IF mig.resume THEN _cleanup_checkpoint(ended) ELSE ended

(* _fetch_pinecone_batches is a stub that returns an empty iterator: the   *)
(* loop body never runs.                                                    *)
FetchPineconeBatch ==
    /\ mig.source_type = "pinecone"
    /\ mig.pc = "fetch"
    /\ mig' = LoopEnd(mig)
    /\ UNCHANGED <<advisors, clients, call, cap, val, ckpt, pop>>

(* One request to a paging generator (_fetch_weaviate_batches,             *)
(* _fetch_qdrant_batches): it moves past the batch it yielded last and      *)
(* queries the next batch_size objects; when the source is exhausted, or    *)
(* the query fails, the loop ends.                                          *)
FetchBatch(fails) ==
    LET offset == mig.offset + Cardinality(mig.batch)
        objects == {id \in Ids : /\ offset <= id
                                 /\ id < offset + mig.batch_size
                                 /\ id < mig.source}
    IN  IF offset < mig.total_vectors /\ ~fails /\ objects # {}
        THEN [mig EXCEPT !.offset = offset, !.batch = objects,
                         !.fetched = @ + Cardinality(objects),
                         !.pc = "insert"]
        ELSE LoopEnd([mig EXCEPT !.offset = offset])

FetchWeaviateBatch(fails) ==
    /\ mig.source_type = "weaviate"
    /\ mig.pc = "fetch"
    /\ mig' = FetchBatch(fails)
    /\ UNCHANGED <<advisors, clients, call, cap, val, ckpt, pop>>

FetchQdrantBatch(fails) ==
    /\ mig.source_type = "qdrant"
    /\ mig.pc = "fetch"
    /\ mig' = FetchBatch(fails)
    /\ UNCHANGED <<advisors, clients, call, cap, val, ckpt, pop>>

(* dest_client.insert of the batch, counted as migrated or as failed *)
(* Variant of InsertBatch in which a failed insert is not counted. *)
InsertBatchFailureUncounted(ok) ==
    /\ mig.pc = "insert"
    /\ mig' =
         IF ok
         THEN [mig EXCEPT
                 !.dest = [id \in Ids |->
                             IF id \in mig.batch THEN @[id] + 1 ELSE @[id]],
                 !.migrated_vectors = @ + Cardinality(mig.batch),
                 !.pc = "save"]
         ELSE [mig EXCEPT !.pc = "save"]
    /\ UNCHANGED <<advisors, clients, call, cap, val, ckpt, pop>>

InsertBatch(ok) ==
    /\ mig.pc = "insert"
    /\ mig' =
         IF ok
         THEN [mig EXCEPT
                 !.dest = [id \in Ids |->
                             IF id \in mig.batch THEN @[id] + 1 ELSE @[id]],
                 !.migrated_vectors = @ + Cardinality(mig.batch),
                 !.pc = "save"]
         ELSE [mig EXCEPT !.failed_vectors = @ + Cardinality(mig.batch),
                          !.pc = "save"]
    /\ UNCHANGED <<advisors, clients, call, cap, val, ckpt, pop>>

(* The end of the loop body: under --resume the checkpoint is saved. *)
SaveProgress ==
    /\ mig.pc = "save"
    /\ mig' = IF mig.resume
              THEN _save_checkpoint([mig EXCEPT !.pc = "fetch"],
                                    mig.migrated_vectors)
              ELSE [mig EXCEPT !.pc = "fetch"]
    /\ UNCHANGED <<advisors, clients, call, cap, val, ckpt, pop>>

(* Ctrl-C inside the loop: the checkpoint is saved and the run returns. *)
KeyboardInterrupt ==
    /\ mig.pc \in {"fetch", "insert", "save"}
    /\ mig' = _save_checkpoint([mig EXCEPT !.pc = "idle", !.batch = {}],
                               mig.migrated_vectors)
    /\ UNCHANGED <<advisors, clients, call, cap, val, ckpt, pop>>

(***************************************************************************)
(* Checkpoint files (milvus_migrate.py, _get_checkpoint_file .. _cleanup_-  *)
(* checkpoint) across runs of the tool with different configurations.  A   *)
(* file holds the JSON object _save_checkpoint wrote, or does not exist.   *)
(***************************************************************************)
SourceTypes == {"pinecone", "weaviate"}

SourceIndexes == {"products", "articles"}

DestCollections == {"vectors", "vectors_v2"}

(* --checkpoint-file: not given, or one explicit path *)
CheckpointFiles == {"", "ckpt.json"}

Offsets == {0, 1, 2}

(* Number of checkpoint operations and reconfigurations in one history. *)
MaxCheckpointOps == 4

MigrationConfigs ==
    [source_type : SourceTypes, source_index : SourceIndexes,
     dest_collection : DestCollections, checkpoint_file : CheckpointFiles]

(* The explicit path, or a name derived from the three migration params.   *)
_get_checkpoint_file(config) ==
    IF config.checkpoint_file # ""
    THEN <<config.checkpoint_file>>
    ELSE <<".migration_checkpoint", config.source_type, config.source_index, config.dest_collection>>

FileNames == {_get_checkpoint_file(config) : config \in MigrationConfigs}

NoFile == [exists |-> FALSE]

save_checkpoint(files, config, offset) ==
    [files EXCEPT ![_get_checkpoint_file(config)] =
        [exists |-> TRUE, offset |-> offset,
         source_type |-> config.source_type,
         source_index |-> config.source_index,
         dest_collection |-> config.dest_collection]]

(* Mutant of load_checkpoint that does not compare the destination. *)
LoadCheckpointAnyDest(files, config) ==
    LET checkpoint == files[_get_checkpoint_file(config)]
    IN  IF ~checkpoint.exists THEN 0
        ELSE IF /\ checkpoint.source_type = config.source_type
                /\ checkpoint.source_index = config.source_index
        THEN checkpoint.offset
        ELSE 0

load_checkpoint(files, config) ==
    LET checkpoint == files[_get_checkpoint_file(config)]
    IN  IF ~checkpoint.exists THEN 0
        ELSE IF /\ checkpoint.source_type = config.source_type
                /\ checkpoint.source_index = config.source_index
                /\ checkpoint.dest_collection = config.dest_collection
        THEN checkpoint.offset
        ELSE 0

cleanup_checkpoint(files, config) ==
    [files EXCEPT ![_get_checkpoint_file(config)] = NoFile]

(* files: the checkpoint files on disk; config: the configuration of the   *)
(* running tool; op, arg: the last operation and the offset it saved or    *)
(* returned; saved: for each file, what the last _save_checkpoint on it    *)
(* was called with, "none" after _cleanup_checkpoint (history).            *)
NewCheckpoints ==
    [files |-> [name \in FileNames |-> NoFile],
     config |-> [source_type |-> "pinecone", source_index |-> "products",
                 dest_collection |-> "vectors", checkpoint_file |-> ""],
     op |-> "none", arg |-> 0, ops |-> 0,
     saved |-> [name \in FileNames |-> <<"none">>]]

(* The tool is started with another configuration. *)
Configure ==
    \E config \in MigrationConfigs :
        /\ ckpt.ops < MaxCheckpointOps
        /\ config # ckpt.config
        /\ ckpt' = [ckpt EXCEPT !.config = config, !.op = "configure", !.ops = @ + 1]
        /\ UNCHANGED <<advisors, clients, call, mig, cap, val, pop>>

SaveCheckpoint ==
    \E offset \in Offsets :
        /\ ckpt.ops < MaxCheckpointOps
        /\ ckpt' = [ckpt EXCEPT
                      !.files = save_checkpoint(ckpt.files, ckpt.config, offset),
                      !.op = "save", !.arg = offset, !.ops = @ + 1,
                      !.saved[_get_checkpoint_file(ckpt.config)] =
                          <<"saved", ckpt.config.source_type, ckpt.config.source_index,
                            ckpt.config.dest_collection, offset>>]
        /\ UNCHANGED <<advisors, clients, call, mig, cap, val, pop>>

LoadCheckpoint ==
    /\ ckpt.ops < MaxCheckpointOps
    /\ ckpt' = [ckpt EXCEPT !.op = "load", !.ops = @ + 1,
                            !.arg = load_checkpoint(ckpt.files, ckpt.config)]
    /\ UNCHANGED <<advisors, clients, call, mig, cap, val, pop>>

CleanupCheckpoint ==
    /\ ckpt.ops < MaxCheckpointOps
    /\ ckpt' = [ckpt EXCEPT
                  !.files = cleanup_checkpoint(ckpt.files, ckpt.config),
                  !.op = "cleanup", !.ops = @ + 1,
                  !.saved[_get_checkpoint_file(ckpt.config)] = <<"none">>]
    /\ UNCHANGED <<advisors, clients, call, mig, cap, val, pop>>

(* The validator before any call. *)
(***************************************************************************)
(* populate_collection (src/tests/load_testing/setup_test_collection.py).  *)
(***************************************************************************)

(* Largest num_vectors and batch_size of a call. *)
MaxPopulate == 8

MaxBatchSize == 4

(* The call before its loop: num_batches is the rounded-up quotient. *)
NewPopulate(num_vectors, batch_size) ==
    [num_vectors |-> num_vectors, batch_size |-> batch_size,
     total_inserted |-> 0,
     num_batches |-> (num_vectors + batch_size - 1) \div batch_size,
     batch_num |-> 0, current_batch_size |-> 0, inserts |-> 0,
     pc |-> "loop"]

(* Variant of CurrentBatchSize that always takes a full batch. *)
CurrentBatchSizeFull(batch_size, num_vectors, total_inserted) == batch_size

CurrentBatchSize(batch_size, num_vectors, total_inserted) ==
    Min(batch_size, num_vectors - total_inserted)

NewValidation == [called |-> FALSE]

(* The capacity analyzer before any call: nothing analysed, nothing rounded. *)
NewCapacity ==
    [request |-> [op |-> "none"], analysis |-> [status |-> "none"],
     rounded |-> [called |-> FALSE]]

InitMigrate ==
    /\ advisors = [a \in Advisors |-> NewAdvisor]
    /\ clients = {}
    /\ call = [c \in {"c1", "c2"} |-> IdleCall]
    /\ mig \in {[NewMigration(n, b) EXCEPT !.source_type = t] :
                   n \in 0..MaxVectors, b \in BatchSizes, t \in MigrationSources}
    /\ cap = NewCapacity
    /\ val = NewValidation
    /\ ckpt = NewCheckpoints
    /\ pop = NewPopulate(1, 1)

NextMigrate ==
    \/ \E resume \in BOOLEAN, answer \in {"yes", "no"}, dry_run \in BOOLEAN :
          MigrateFromPinecone(resume, answer, dry_run)
    \/ \E resume \in BOOLEAN, answer \in {"yes", "no"}, dry_run \in BOOLEAN :
          MigrateFromWeaviate(resume, answer, dry_run)
    \/ \E resume \in BOOLEAN, answer \in {"yes", "no"}, dry_run \in BOOLEAN :
          MigrateFromQdrant(resume, answer, dry_run)
    \/ FetchPineconeBatch
    \/ \E fails \in BOOLEAN : FetchWeaviateBatch(fails)
    \/ \E fails \in BOOLEAN : FetchQdrantBatch(fails)
    \/ \E ok \in BOOLEAN : InsertBatch(ok)
    \/ SaveProgress
    \/ KeyboardInterrupt

(* The tool run up to MaxRuns times on one source and one destination. *)
SpecMigrate == InitMigrate /\ [][NextMigrate]_vars

-----------------------------------------------------------------------------
(* Actions of the advisor.                                                  *)

(* The configuration validator (config_validator.py).  A ValidationResult  *)
(* holds its errors and warnings, one tag per message; exc names the        *)
(* exception that ended the validation instead, if any.  The optional       *)
(* arguments num_vectors, dimensions and memory_budget_gb are read only     *)
(* behind truthiness tests, so None is written 0.  The metric_type entry    *)
(* of params is kept apart from its integer entries ("none": no entry).     *)

HNSW_MIN_M == 1

HNSW_MAX_M == 2048

HNSW_RECOMMENDED_MAX_M == 64

HNSW_MIN_EF_CONSTRUCTION == 1

HNSW_MAX_EF_CONSTRUCTION == 2147483647

IVF_MIN_NLIST == 1

IVF_MAX_NLIST == 65536

ValidationResult == [errors |-> {}, warnings |-> {}, exc |-> "none"]

Raised(exc) == [ValidationResult EXCEPT !.exc = exc]

(* the messages added under a condition *)
When(cond, message) == IF cond THEN {message} ELSE {}

(* ValidationResult.merge; an exception in computing other propagates *)
merge(result, other) ==
    IF result.exc # "none" THEN result
    ELSE IF other.exc # "none" THEN other
    ELSE [errors |-> result.errors \cup other.errors,
          warnings |-> result.warnings \cup other.warnings, exc |-> "none"]

(* pct percent of memory_budget_gb GB, in 1/100 byte *)
BudgetShare(memory_budget_gb, pct) == BigMul(Big(GiB), pct * memory_budget_gb)

(* estimated > 0.9 * budget: an error; else > 0.75 * budget: a warning *)
MemoryVerdict(estimated, memory_budget_gb, message) ==
    IF BigLess(BudgetShare(memory_budget_gb, 90), estimated)
    THEN [ValidationResult EXCEPT !.errors = {message}]
    ELSE IF BigLess(BudgetShare(memory_budget_gb, 75), estimated)
    THEN [ValidationResult EXCEPT !.warnings = {message}]
    ELSE ValidationResult

(* (N * d * 4 + N * M * 2 * 8) * 1.2 bytes, in 1/100 byte *)
_validate_hnsw_memory(M, num_vectors, dimensions, memory_budget_gb) ==
    MemoryVerdict(BigMul(Big(num_vectors), 480 * dimensions + 1920 * M),
                  memory_budget_gb, "HNSW memory")

_validate_hnsw(params, num_vectors, dimensions, memory_budget_gb) ==
    LET M == ParamGet(params, "M", ParamGet(params, "m", 16))
        efConstruction ==
            ParamGet(params, "efConstruction",
                     ParamGet(params, "ef_construction", 200))
        result ==
            [errors |->
                When(M < HNSW_MIN_M \/ M > HNSW_MAX_M, "M out of valid range")
                \cup When(M > HNSW_RECOMMENDED_MAX_M,
                          "M exceeds recommended maximum")
                \cup When(efConstruction < HNSW_MIN_EF_CONSTRUCTION,
                          "efConstruction below minimum")
                \cup When(efConstruction >= HNSW_MIN_EF_CONSTRUCTION
                          /\ efConstruction > HNSW_MAX_EF_CONSTRUCTION,
                          "efConstruction exceeds maximum"),
             warnings |->
                When(efConstruction < M * 10, "efConstruction below 10x M")
                \cup When(efConstruction > 1000, "efConstruction very high"),
             exc |-> "none"]
    IN  (* the ratio warning formats efConstruction / M *)
        IF efConstruction < M * 10 /\ M = 0 THEN Raised("ZeroDivisionError")
        ELSE IF num_vectors # 0 /\ dimensions # 0 /\ memory_budget_gb # 0
        THEN merge(result, _validate_hnsw_memory(M, num_vectors, dimensions,
                                                 memory_budget_gb))
        ELSE result

_validate_ivf_pq(params, dimensions) ==
    LET m == ParamGet(params, "m", ParamGet(params, "M", 0))
        nbits == ParamGet(params, "nbits", ParamGet(params, "nBits", 8))
    IN  IF ~HasParam(params, "m") /\ ~HasParam(params, "M")
        THEN [ValidationResult EXCEPT !.warnings = {"m not specified"}]
        ELSE IF dimensions # 0 /\ m = 0 THEN Raised("ZeroDivisionError")
        ELSE [errors |->
                 When(dimensions # 0 /\ Abs(dimensions) % Abs(m) # 0,
                      "m must divide dimensions"),
              warnings |->
                 When(nbits \notin {8, 16}, "nbits non-standard")
                 \cup When(dimensions # 0 /\ 2 * m > dimensions,
                           "m very high"),
              exc |-> "none"]

(* (N * d * 4 + nlist * d * 4) * 1.1 bytes, in 1/100 byte *)
_validate_ivf_flat_memory(nlist, num_vectors, dimensions, memory_budget_gb) ==
    MemoryVerdict(BigMul(Big(num_vectors + nlist), 440 * dimensions),
                  memory_budget_gb, "IVF_FLAT memory")

(* int(math.sqrt(n)) for 0 <= n < 2^31 *)
ISqrtWide(n) == SqrtIn(n, 0, 46341)

_validate_ivf(index_type, params, num_vectors, dimensions, memory_budget_gb) ==
    LET nlist == ParamGet(params, "nlist", ParamGet(params, "nList", 1024))
        recommended_nlist_min == ISqrtWide(num_vectors)
        recommended_nlist_max == ISqrtWide(16 * num_vectors)
        result ==
            [errors |->
                When(nlist < IVF_MIN_NLIST \/ nlist > IVF_MAX_NLIST,
                     "nlist out of valid range"),
             warnings |->
                IF num_vectors = 0 THEN {}
                ELSE When(nlist < recommended_nlist_min, "nlist too low")
                     \cup When(nlist >= recommended_nlist_min
                               /\ nlist > recommended_nlist_max,
                               "nlist too high")
                     \cup When(nlist > num_vectors,
                               "nlist exceeds number of vectors"),
             exc |-> "none"]
        pq == IF index_type = "IVF_PQ"
              THEN merge(result, _validate_ivf_pq(params, dimensions))
              ELSE result
    IN  (* math.sqrt of a negative number *)
        IF num_vectors < 0 THEN Raised("ValueError")
        ELSE IF index_type = "IVF_FLAT" /\ num_vectors # 0 /\ dimensions # 0
                /\ memory_budget_gb # 0
        THEN merge(pq, _validate_ivf_flat_memory(nlist, num_vectors,
                                                 dimensions, memory_budget_gb))
        ELSE pq

_validate_flat(params, num_vectors, dimensions, memory_budget_gb) ==
    [errors |->
        When(num_vectors # 0 /\ dimensions # 0 /\ memory_budget_gb # 0
             /\ BigLess(BudgetShare(memory_budget_gb, 90),
                        BigMul(Big(num_vectors), 400 * dimensions)),
             "FLAT memory"),
     warnings |-> When(num_vectors # 0 /\ num_vectors > 1000000,
                       "FLAT brute force"),
     exc |-> "none"]

_validate_metric_type(metric_type, index_type) ==
    [ValidationResult EXCEPT !.errors =
        When(index_type = "HNSW" /\ metric_type \notin {"L2", "IP", "COSINE"},
             "metric not supported for HNSW")]

(* str.upper on the index types the model passes *)
Upper(index_type) == IF index_type = "hnsw" THEN "HNSW" ELSE index_type

validate_index_config(index_type, params, metric_type, num_vectors, dimensions, memory_budget_gb) ==
    LET index_type_upper == Upper(index_type)
        result ==
            IF index_type_upper = "HNSW"
            THEN _validate_hnsw(params, num_vectors, dimensions,
                                memory_budget_gb)
            ELSE IF index_type_upper \in {"IVF_FLAT", "IVF_SQ8", "IVF_PQ"}
            THEN _validate_ivf(index_type_upper, params, num_vectors,
                               dimensions, memory_budget_gb)
            ELSE IF index_type_upper \in {"FLAT", "BIN_FLAT"}
            THEN _validate_flat(params, num_vectors, dimensions,
                                memory_budget_gb)
            ELSE [ValidationResult EXCEPT
                    !.warnings = {"validation not implemented"}]
    IN  IF metric_type # "none"
        THEN merge(result, _validate_metric_type(metric_type,
                                                 index_type_upper))
        ELSE result

-----------------------------------------------------------------------------

(***************************************************************************)
(* Capacity analyzer (src/tools/capacity_analyzer.py).  Memory sizes are    *)
(* exact integers in 1/100 GB; the usage statistics a fetch returns are     *)
(* multiples of 1/10 GB, so the 20% headroom is exact.  Money is in         *)
(* 1/10000 USD, percentages are exact fractions.                            *)
(***************************************************************************)
CentiGb == 100

(* 10.50 USD per GB and month, in 1/10000 USD. *)
COST_PER_GB_MONTH == 105000

(* 0.60 and 1.20, in hundredths. *)
OVER_PROVISIONED_THRESHOLD == 60

HEADROOM_FACTOR == 120

common_sizes == <<8, 16, 24, 32, 48, 64, 96, 128, 192, 256, 384, 512>>

NodeIds == {"querynode-1", "querynode-2", "querynode-3", "querynode-4", "querynode-5", "querynode-9"}

DaysValues == {1, 7, 30}

UsageValues == {0, 500, 1900, 2000, 2700, 3000, 3840, 6000, 7000, 12000}

SizeValues == {0, 790, 800, 810, 2400, 4560, 7200, 48000, 51200, 51201, 51300, 57600, 57650, 64090, 100000}

_get_allocated_memory(node_id) ==
    CASE node_id = "querynode-1" -> 64 * CentiGb
      [] node_id = "querynode-2" -> 64 * CentiGb
      [] node_id = "querynode-3" -> 128 * CentiGb
      [] node_id = "querynode-4" -> 32 * CentiGb
      [] node_id = "querynode-5" -> 96 * CentiGb
      [] OTHER -> 64 * CentiGb

(* What fetch_metrics can hand to analyze_node: it raises, or it returns   *)
(* the node's allocation with usage percentiles of one series (p95 <= p99).*)
NoMetrics == [ok |-> FALSE, allocated_memory_gb |-> 0, p95_memory_gb |-> 0, p99_memory_gb |-> 0, time_range_days |-> 0]

FetchOutcomes(node_id, days) ==
    {[NoMetrics EXCEPT !.time_range_days = days]}
    \cup {[ok |-> TRUE, allocated_memory_gb |-> _get_allocated_memory(node_id),
           p95_memory_gb |-> p95, p99_memory_gb |-> p99, time_range_days |-> days] :
              <<p95, p99>> \in {pair \in UsageValues \X UsageValues : pair[1] <= pair[2]}}

(* First common size that is >= size_gb, scanning the list in order. *)
RECURSIVE NextCommonSize(_, _)
NextCommonSize(size_gb, i) ==
    IF i > Len(common_sizes) THEN 0
    ELSE IF common_sizes[i] * CentiGb >= size_gb THEN common_sizes[i] * CentiGb
    ELSE NextCommonSize(size_gb, i + 1)

(* int(size_gb) truncates the fraction before the multiple of 64 is taken. *)
_round_to_common_size(size_gb) ==
    IF NextCommonSize(size_gb, 1) # 0 THEN NextCommonSize(size_gb, 1)
    ELSE (((size_gb \div CentiGb) + 63) \div 64) * 64 * CentiGb

Confidence(days) ==
    IF days >= 30 THEN "very_high" ELSE IF days >= 7 THEN "high" ELSE "medium"

(* analyze_node after the fetch: the dict it returns. *)
Analysis(node_id, metrics) ==
    LET allocated == metrics.allocated_memory_gb
        p95_usage == metrics.p95_memory_gb
        p99_usage == metrics.p99_memory_gb
        days == metrics.time_range_days
        over == IF allocated > 0
                THEN p95_usage * 100 < OVER_PROVISIONED_THRESHOLD * allocated
                ELSE 0 < OVER_PROVISIONED_THRESHOLD
        recommended == _round_to_common_size((p99_usage * HEADROOM_FACTOR) \div 100)
        savings == allocated - recommended
    IN  IF ~metrics.ok
        THEN [node_id |-> node_id, status |-> "error"]
        ELSE IF over
        THEN [node_id |-> node_id, status |-> "over_provisioned",
              allocated_gb |-> allocated, p95_usage_gb |-> p95_usage,
              p99_usage_gb |-> p99_usage,
              utilization_pct |-> [num |-> p95_usage * 100, den |-> allocated],
              recommended_gb |-> recommended,
              savings_gb |-> savings,
              savings_pct |-> IF allocated > 0 THEN [num |-> savings * 100, den |-> allocated]
                              ELSE [num |-> 0, den |-> 1],
              savings_monthly_usd |-> savings * (COST_PER_GB_MONTH \div CentiGb),
              confidence |-> Confidence(days), time_range_days |-> days]
        ELSE [node_id |-> node_id, status |-> "optimal",
              allocated_gb |-> allocated, p95_usage_gb |-> p95_usage,
              p99_usage_gb |-> p99_usage,
              utilization_pct |-> [num |-> p95_usage * 100, den |-> allocated],
              confidence |-> IF days >= 7 THEN "high" ELSE "medium"]

(* The calls made on the analyzer: analyze_node on a node with what the    *)
(* fetch will give, or _round_to_common_size on a size.                     *)
CapacityCalls ==
    {[op |-> "analyze_node", node_id |-> node_id, metrics |-> metrics, size_gb |-> 0] :
        <<node_id, metrics>> \in UNION {{<<n, m>> : m \in UNION {FetchOutcomes(n, days) : days \in DaysValues}} : n \in NodeIds}}
    \cup {[op |-> "_round_to_common_size", node_id |-> "", metrics |-> NoMetrics, size_gb |-> size_gb] :
            size_gb \in SizeValues}

analyze_node ==
    /\ cap.request.op = "analyze_node"
    /\ cap.analysis.status = "none"
    /\ cap' = [cap EXCEPT !.analysis = Analysis(cap.request.node_id, cap.request.metrics)]
    /\ UNCHANGED <<advisors, clients, call, mig, val, ckpt, pop>>

RoundToCommonSize ==
    /\ cap.request.op = "_round_to_common_size"
    /\ ~cap.rounded.called
    /\ cap' = [cap EXCEPT !.rounded = [called |-> TRUE, size_gb |-> cap.request.size_gb,
                                       result |-> _round_to_common_size(cap.request.size_gb)]]
    /\ UNCHANGED <<advisors, clients, call, mig, val, ckpt, pop>>

InitCapacity ==
    /\ advisors = [a \in Advisors |-> NewAdvisor]
    /\ clients = {}
    /\ call = [c \in {"c1", "c2"} |-> IdleCall]
    /\ mig = NewMigration(0, 1)
    /\ cap \in {[NewCapacity EXCEPT !.request = request] : request \in CapacityCalls}
    /\ val = NewValidation
    /\ ckpt = NewCheckpoints
    /\ pop = NewPopulate(1, 1)

NextCapacity ==
    \/ analyze_node
    \/ RoundToCommonSize

SpecCapacity == InitCapacity /\ [][NextCapacity]_vars

(***************************************************************************)
(* Calls of ConfigValidator.validate_index_config on configurations around *)
(* the limits of each parameter, zero and negative values included.        *)
(***************************************************************************)
ConfigIndexTypes == {"HNSW", "hnsw", "IVF_FLAT", "IVF_PQ", "FLAT", "DISKANN"}

ConfigParams ==
    { {},
      {<<"M", 16>>, <<"efConstruction", 240>>, <<"ef", 64>>},
      {<<"M", 0>>, <<"efConstruction", -1>>},
      {<<"M", 0>>, <<"efConstruction", 0>>},
      {<<"M", 100>>, <<"efConstruction", 50>>},
      {<<"M", -4>>, <<"efConstruction", 600>>},
      {<<"nlist", 128>>, <<"m", 0>>, <<"nbits", 8>>},
      {<<"nlist", 0>>, <<"m", 32>>, <<"nbits", 4>>},
      {<<"nlist", 1414>>, <<"m", 32>>, <<"nbits", 8>>},
      {<<"nlist", -5>>} }

ConfigMetricTypes == {"none", "L2", "HAMMING"}

ConfigNumVectors == {0, -1, 10000, 2000000}

ConfigDimensions == {0, 101, 768}

ConfigBudgets == {0, 8, 64}

(* The arguments of one call, before it is made. *)
ConfigCalls ==
    [called : {FALSE}, index_type : ConfigIndexTypes, params : ConfigParams,
     metric_type : ConfigMetricTypes, num_vectors : ConfigNumVectors,
     dimensions : ConfigDimensions, memory_budget_gb : ConfigBudgets]

ValidateIndexConfig ==
    /\ ~val.called
    /\ val' = [called |-> TRUE, index_type |-> val.index_type, params |-> val.params,
               metric_type |-> val.metric_type, num_vectors |-> val.num_vectors,
               dimensions |-> val.dimensions, memory_budget_gb |-> val.memory_budget_gb,
               result |-> validate_index_config(val.index_type, val.params, val.metric_type,
                              val.num_vectors, val.dimensions, val.memory_budget_gb)]
    /\ UNCHANGED <<advisors, clients, call, mig, cap, ckpt, pop>>

InitValidate ==
    /\ advisors = [a \in Advisors |-> NewAdvisor]
    /\ clients = {}
    /\ call = [c \in {"c1", "c2"} |-> IdleCall]
    /\ mig = NewMigration(0, 1)
    /\ cap = NewCapacity
    /\ val \in ConfigCalls
    /\ ckpt = NewCheckpoints
    /\ pop = NewPopulate(1, 1)

NextValidate == ValidateIndexConfig

SpecValidate == InitValidate /\ [][NextValidate]_vars

InitCheckpoint ==
    /\ advisors = [a \in Advisors |-> NewAdvisor]
    /\ clients = {}
    /\ call = [c \in {"c1", "c2"} |-> IdleCall]
    /\ mig = NewMigration(0, 1)
    /\ cap = NewCapacity
    /\ val = NewValidation
    /\ ckpt = NewCheckpoints
    /\ pop = NewPopulate(1, 1)

NextCheckpoint ==
    \/ Configure
    \/ SaveCheckpoint
    \/ LoadCheckpoint
    \/ CleanupCheckpoint

SpecCheckpoint == InitCheckpoint /\ [][NextCheckpoint]_vars

(* Top of the loop body: range(num_batches) yields the next batch_num and  *)
(* the batch is generated; after the last one the loop is left.            *)
GenerateBatch ==
    /\ pop.pc = "loop"
    /\ pop' = IF pop.batch_num < pop.num_batches
              THEN [pop EXCEPT
                      !.current_batch_size =
                          CurrentBatchSize(pop.batch_size, pop.num_vectors,
                                           pop.total_inserted),
                      !.pc = "insert"]
              ELSE [pop EXCEPT !.pc = "log"]
    /\ UNCHANGED <<advisors, clients, call, mig, cap, val, ckpt>>

(* client.insert: it returns and the batch is counted, or it raises and    *)
(* the exception leaves populate_collection.                                *)
PopulateInsert(ok) ==
    /\ pop.pc = "insert"
    /\ pop' = IF ok
              THEN [pop EXCEPT !.inserts = @ + 1,
                               !.total_inserted = @ + pop.current_batch_size,
                               !.batch_num = @ + 1,
                               !.pc = "loop"]
              ELSE [pop EXCEPT !.inserts = @ + 1, !.pc = "raised"]
    /\ UNCHANGED <<advisors, clients, call, mig, cap, val, ckpt>>

(* The closing log line divides by the elapsed time, which is 0.0 when the *)
(* clock has not advanced since the start.                                  *)
PopulateLog(elapsed_positive) ==
    /\ pop.pc = "log"
    /\ pop' = [pop EXCEPT !.pc = IF elapsed_positive THEN "done" ELSE "raised"]
    /\ UNCHANGED <<advisors, clients, call, mig, cap, val, ckpt>>

InitPopulate ==
    /\ advisors = [a \in Advisors |-> NewAdvisor]
    /\ clients = {}
    /\ call = [c \in {"c1", "c2"} |-> IdleCall]
    /\ mig = NewMigration(0, 1)
    /\ cap = NewCapacity
    /\ val = NewValidation
    /\ ckpt = NewCheckpoints
    /\ pop \in {NewPopulate(n, b) : n \in 1..MaxPopulate, b \in 1..MaxBatchSize}

NextPopulate ==
    \/ GenerateBatch
    \/ \E ok \in BOOLEAN : PopulateInsert(ok)
    \/ \E elapsed_positive \in BOOLEAN : PopulateLog(elapsed_positive)

(* Every step of the call is eventually taken: the function keeps running. *)
SpecPopulate == InitPopulate /\ [][NextPopulate]_vars /\ WF_vars(NextPopulate)

Init ==
    /\ advisors = [a \in Advisors |-> NewAdvisor]
    /\ clients = {"c1"}
    /\ call = [c \in {"c1", "c2"} |-> IdleCall]
    /\ mig = NewMigration(0, 1)
    /\ cap = NewCapacity
    /\ val = NewValidation
    /\ ckpt = NewCheckpoints
    /\ pop = NewPopulate(1, 1)

InitShared ==
    /\ advisors = [a \in Advisors |-> NewAdvisor]
    /\ clients = {"c1", "c2"}
    /\ call = [c \in {"c1", "c2"} |-> IdleCall]
    /\ mig = NewMigration(0, 1)
    /\ cap = NewCapacity
    /\ val = NewValidation
    /\ ckpt = NewCheckpoints
    /\ pop = NewPopulate(1, 1)

(* A caller invokes advisor.recommend(...) on one of the advisors. *)
Call(c) ==
    /\ c \in clients
    /\ call[c].pc = "idle"
    /\ \E a \in Advisors, req \in Inputs :
         call' = [call EXCEPT ![c] =
                    [IdleCall EXCEPT !.pc = "running", !.self = a, !.req = req,
                        !.stack = <<Frame("recommend", req.num_vectors,
                                          req.dimensions,
                                          req.latency_requirement_ms,
                                          req.memory_budget_gb)>>]]
    /\ UNCHANGED <<advisors, clients, mig, cap, val, ckpt, pop>>

(* recommend: rules 1-6, then the call of the chosen builder.  hnsw_memory  *)
(* is assigned only once rules 1 and 2 have not returned.                   *)
Recommend(c) ==
    /\ Running(c, "recommend")
    /\ LET req == call[c].req
           fn == Decide(req)
           probed == fn \notin {"_recommend_flat", "_recommend_diskann"}
       IN  call' = [call EXCEPT ![c] =
                      Invoke([@ EXCEPT
                                !.selected = FamilyOf(fn),
                                !.hnsw_memory =
                                    IF probed
                                    THEN HnswMemoryProbe(req.num_vectors,
                                                         req.dimensions)
                                    ELSE @],
                             Frame(fn, req.num_vectors, req.dimensions,
                                   req.latency_requirement_ms,
                                   req.memory_budget_gb))]
    /\ UNCHANGED <<advisors, clients, mig, cap, val, ckpt, pop>>

(* _recommend_hnsw: alternatives = [ivf_flat(...), diskann(..., 100)] *)
RecommendHnsw(c) ==
    /\ Running(c, "_recommend_hnsw")
    /\ LET f == Top(c)
           k == Len(f.alternatives)
       IN  call' = [call EXCEPT ![c] =
             IF k = 0
             THEN Invoke(Assign(@, Locals(HnswValue(f.num_vectors, f.dimensions,
                                                 <<>>))),
                         Frame("_recommend_ivf_flat", f.num_vectors, f.dimensions, 0, 0))
             ELSE IF k = 1
             THEN Invoke(@, Frame("_recommend_diskann", f.num_vectors,
                                  f.dimensions, AltDiskAnnLatency, 0))
             ELSE Return(@, HnswValue(f.num_vectors, f.dimensions,
                                      f.alternatives))]
    /\ UNCHANGED <<advisors, clients, mig, cap, val, ckpt, pop>>

(* _recommend_ivf_flat: alternatives = [hnsw(...), ivf_sq8(...)] *)
RecommendIvfFlat(c) ==
    /\ Running(c, "_recommend_ivf_flat")
    /\ LET f == Top(c)
           k == Len(f.alternatives)
       IN  call' = [call EXCEPT ![c] =
             IF k = 0
             THEN Invoke(Assign(@, Locals(IvfFlatValue(f.num_vectors, f.dimensions,
                                                 <<>>))),
                         Frame("_recommend_hnsw", f.num_vectors, f.dimensions, 0, 0))
             ELSE IF k = 1
             THEN Invoke(@, Frame("_recommend_ivf_sq8", f.num_vectors,
                                  f.dimensions, 0, 0))
             ELSE Return(@, IvfFlatValue(f.num_vectors, f.dimensions,
                                         f.alternatives))]
    /\ UNCHANGED <<advisors, clients, mig, cap, val, ckpt, pop>>

(* _recommend_ivf_pq: alternatives = [ivf_sq8(...), diskann(..., 100)] *)
(* _recommend_ivf_pq with its two alternatives computed in the other order *)
RecommendIvfPqSwapped(c) ==
    /\ Running(c, "_recommend_ivf_pq")
    /\ LET f == Top(c)
           k == Len(f.alternatives)
       IN  call' = [call EXCEPT ![c] =
             IF k = 0
             THEN Invoke(Assign(@, Locals(IvfPqValue(f.num_vectors, f.dimensions,
                                                 <<>>))),
                         Frame("_recommend_diskann", f.num_vectors,
                               f.dimensions, AltDiskAnnLatency, 0))
             ELSE IF k = 1
             THEN Invoke(@, Frame("_recommend_ivf_sq8", f.num_vectors,
                                  f.dimensions, 0, 0))
             ELSE Return(@, IvfPqValue(f.num_vectors, f.dimensions,
                                       f.alternatives))]
    /\ UNCHANGED <<advisors, clients, mig, cap, val, ckpt, pop>>

RecommendIvfPq(c) ==
    /\ Running(c, "_recommend_ivf_pq")
    /\ LET f == Top(c)
           k == Len(f.alternatives)
       IN  call' = [call EXCEPT ![c] =
             IF k = 0
             THEN Invoke(Assign(@, Locals(IvfPqValue(f.num_vectors, f.dimensions,
                                                 <<>>))),
                         Frame("_recommend_ivf_sq8", f.num_vectors, f.dimensions, 0, 0))
             ELSE IF k = 1
             THEN Invoke(@, Frame("_recommend_diskann", f.num_vectors,
                                  f.dimensions, AltDiskAnnLatency, 0))
             ELSE Return(@, IvfPqValue(f.num_vectors, f.dimensions,
                                       f.alternatives))]
    /\ UNCHANGED <<advisors, clients, mig, cap, val, ckpt, pop>>

RecommendDiskann(c) ==
    /\ Running(c, "_recommend_diskann")
    /\ LET f == Top(c)
       IN  call' = [call EXCEPT ![c] =
             Return(@, DiskannValue(f.num_vectors, f.dimensions,
                                    f.latency_requirement_ms))]
    /\ UNCHANGED <<advisors, clients, mig, cap, val, ckpt, pop>>

RecommendFlat(c) ==
    /\ Running(c, "_recommend_flat")
    /\ LET f == Top(c)
       IN  call' = [call EXCEPT ![c] =
             Return(@, FlatValue(f.num_vectors, f.dimensions))]
    /\ UNCHANGED <<advisors, clients, mig, cap, val, ckpt, pop>>

(* An IVF_SQ8 builder that memoizes in the advisor's memory_models and      *)
(* answers a repeated question from the memo.                               *)
RecommendIvfSq8Memo(c) ==
    /\ Running(c, "_recommend_ivf_sq8")
    /\ LET f == Top(c)
           a == call[c].self
           key == <<f.num_vectors, f.dimensions>>
           value == IvfSq8Value(f.num_vectors, f.dimensions)
       IN  /\ call' = [call EXCEPT ![c] =
                 Return(@, IF key \in advisors[a].memory_models
                           THEN [value EXCEPT !.reason =
                                    Reason("Good balance (memoized)", Big(0))]
                           ELSE value)]
           /\ advisors' = [advisors EXCEPT ![a].memory_models = @ \cup {key}]
    /\ UNCHANGED <<clients, mig, cap, val, ckpt, pop>>

RecommendIvfSq8(c) ==
    /\ Running(c, "_recommend_ivf_sq8")
    /\ LET f == Top(c)
       IN  call' = [call EXCEPT ![c] =
             Return(@, IvfSq8Value(f.num_vectors, f.dimensions))]
    /\ UNCHANGED <<advisors, clients, mig, cap, val, ckpt, pop>>

RecommendGpuIvf(c) ==
    /\ Running(c, "_recommend_gpu_ivf")
    /\ LET f == Top(c)
       IN  call' = [call EXCEPT ![c] =
             Return(@, GpuIvfValue(f.num_vectors, f.dimensions,
                                   f.memory_budget_gb))]
    /\ UNCHANGED <<advisors, clients, mig, cap, val, ckpt, pop>>

Next ==
    \E c \in {"c1", "c2"} :
        \/ Call(c)
        \/ Recommend(c)
        \/ RecommendHnsw(c)
        \/ RecommendIvfFlat(c)
        \/ RecommendIvfPq(c)
        \/ RecommendDiskann(c)
        \/ RecommendFlat(c)
        \/ RecommendIvfSq8(c)
        \/ RecommendGpuIvf(c)

Spec == Init /\ [][Next]_vars

(* Two callers, on the same advisor or on two, in any interleaving. *)
SpecShared == InitShared /\ [][Next]_vars

-----------------------------------------------------------------------------
(* Properties of recommend.                                                 *)

Finished(c) == c \in clients /\ call[c].pc \in {"returned", "raised"}

Returned(c) == c \in clients /\ call[c].pc = "returned"

(* recommend has reached the call of a builder *)
Selected(c) == c \in clients /\ call[c].selected # "none"

(* recommend has computed hnsw_memory *)
Probed(c) == Selected(c) /\ call[c].selected \notin {"FLAT", "DISK_ANN"}

ValidRequirement(req) ==
    /\ req.num_vectors > 0
    /\ req.dimensions > 0
    /\ req.latency_requirement_ms > 0
    /\ req.memory_budget_gb > 0
    /\ req.qps_target >= 0

Implemented ==
    {"FLAT", "HNSW", "IVF_FLAT", "IVF_SQ8", "IVF_PQ", "DISK_ANN",
     "GPU_IVF_FLAT"}

(* C1: for every valid requirement recommend terminates normally and the    *)
(* Recommendation it returns has one of the seven implemented families,     *)
(* also when the requirement is routed to the HNSW or IVF_FLAT builder.     *)
(* The code violates this: _recommend_hnsw and _recommend_ivf_flat call     *)
(* each other without end, and the call dies with RecursionError.           *)
C1_RecommendReturnsImplementedFamily ==
    \A c \in clients :
        (call[c].pc # "idle" /\ ValidRequirement(call[c].req)) =>
            /\ call[c].pc # "raised"
            /\ Returned(c) => call[c].result.index_type \in Implemented

(* C2: every Recommendation recommend returns has at most two alternatives, *)
(* none of them of the primary's family, each with no alternatives of its   *)
(* own; the same holds of every value a builder has collected so far.       *)
AlternativesFlat(family, alternatives) ==
    /\ Len(alternatives) <= 2
    /\ \A i \in 1..Len(alternatives) :
          /\ alternatives[i].index_type # family
          /\ alternatives[i].alternatives = <<>>

C2_AlternativesShape ==
    \A c \in clients :
        /\ Returned(c) =>
              AlternativesFlat(call[c].result.index_type,
                               call[c].result.alternatives)
        /\ \A i \in 1..Len(call[c].stack) :
              call[c].stack[i].fn # "recommend" =>
                  AlternativesFlat(FamilyOf(call[c].stack[i].fn),
                                   call[c].stack[i].alternatives)

C2_Witness ==
    \E c \in clients :
        /\ Returned(c)
        /\ Len(call[c].result.alternatives) = 2

(* C3: the family recommend selects (the builder it returns through, and    *)
(* the family of whatever it returns) is the outcome of the first matching  *)
(* rule of the six-rule chain taken in order 1..6.                          *)
C3_FirstMatchingRuleWins ==
    \A c \in clients :
        /\ Selected(c) =>
              call[c].selected =
                  FamilyOf(FirstMatch(call[c].req, <<1, 2, 3, 4, 5, 6, 7>>))
        /\ Returned(c) =>
              call[c].result.index_type =
                  FamilyOf(FirstMatch(call[c].req, <<1, 2, 3, 4, 5, 6, 7>>))

(* an earlier rule wins although a later rule matches as well *)
C3_Witness ==
    \E c \in clients :
        /\ Returned(c)
        /\ call[c].result.index_type = "GPU_IVF_FLAT"
        /\ RuleMatches(call[c].req, 5)

(* C4: a requirement with a non-positive num_vectors, dimensions,           *)
(* latency_requirement_ms or memory_budget_gb is rejected before any rule   *)
(* is evaluated: no builder is selected, no Recommendation is returned, and *)
(* the call ends with InvalidRequirement.  The code has no such check.      *)
InvalidRequirement(req) ==
    \/ req.num_vectors <= 0
    \/ req.dimensions <= 0
    \/ req.latency_requirement_ms <= 0
    \/ req.memory_budget_gb <= 0

C4_InvalidRequirementRejected ==
    \A c \in clients :
        (call[c].pc # "idle" /\ InvalidRequirement(call[c].req)) =>
            /\ ~Selected(c)
            /\ ~Returned(c)
            /\ Finished(c) => call[c].exc = "InvalidRequirement"

(* C5: with num_vectors < 10,000 recommend returns FLAT with no params and  *)
(* recall 1.0, with num_vectors > 100,000,000 it returns DISK_ANN, whatever *)
(* the other fields are; neither call fails, and no num_vectors satisfies   *)
(* both thresholds.                                                         *)
C5_SizeRulesDominate ==
    \A c \in clients :
        LET req == call[c].req
            rec == call[c].result
        IN  call[c].pc # "idle" =>
              /\ ~(req.num_vectors < 10000 /\ req.num_vectors > 100000000)
              /\ req.num_vectors < 10000 =>
                    /\ call[c].pc # "raised"
                    /\ Selected(c) => call[c].selected = "FLAT"
                    /\ Returned(c) =>
                          /\ rec.index_type = "FLAT"
                          /\ rec.params = {}
                          /\ rec.recall_at_10 = 100
              /\ req.num_vectors > 100000000 =>
                    /\ call[c].pc # "raised"
                    /\ Selected(c) => call[c].selected = "DISK_ANN"
                    /\ Returned(c) => rec.index_type = "DISK_ANN"

(* a tiny dataset whose other fields match rules 3 and 4 *)
C5_Witness ==
    \E c \in clients :
        /\ Returned(c)
        /\ call[c].req.num_vectors = 9999
        /\ call[c].req.dimensions = 768
        /\ RuleMatches(call[c].req, 3)
        /\ RuleMatches(call[c].req, 4)
        /\ call[c].result.index_type = "FLAT"

(* C6: the size thresholds are exclusive.  With num_vectors = 10,000        *)
(* recommend never selects FLAT, with num_vectors = 100,000,000 it never    *)
(* selects DISK_ANN; both fall through to the builders of rules 3-6.        *)
C6_ThresholdsExclusive ==
    \A c \in clients :
        (Selected(c) /\ call[c].req.num_vectors \in {10000, 100000000}) =>
            /\ call[c].selected \notin {"FLAT", "DISK_ANN"}
            /\ call[c].selected \in
                  {"HNSW", "GPU_IVF_FLAT", "IVF_PQ", "IVF_SQ8", "IVF_FLAT"}
            /\ Returned(c) =>
                  call[c].result.index_type \notin {"FLAT", "DISK_ANN"}

C6_Witness ==
    \E c \in clients :
        /\ Returned(c)
        /\ call[c].req.num_vectors = 100000000
        /\ call[c].result.index_type = "IVF_PQ"

C8_Deterministic ==
    /\ \A a \in Advisors : advisors[a] = NewAdvisor
    /\ \A c1 \in clients, c2 \in clients :
          (Finished(c1) /\ Finished(c2) /\ call[c1].req = call[c2].req) =>
              /\ call[c1].pc = call[c2].pc
              /\ call[c1].exc = call[c2].exc
              /\ call[c1].result = call[c2].result

(* two finished calls of the same requirement on one advisor *)
C8_Witness ==
    /\ Returned("c1") /\ Returned("c2")
    /\ call["c1"].req = call["c2"].req
    /\ call["c1"].self = call["c2"].self
    /\ call["c1"].result.index_type = "IVF_SQ8"

(* C9: GPU_IVF_FLAT is selected only when qps_target > 5,000 and has_gpu    *)
(* hold and rules 1-3 do not match; a requirement past rules 1-2 with       *)
(* latency < 30 and probe < 0.8 * budget is routed to HNSW even with        *)
(* qps_target > 5,000 and a GPU; without a GPU or with qps_target <= 5,000  *)
(* GPU_IVF_FLAT is never selected or returned.                              *)
C9_GpuOnlyAfterHnsw ==
    \A c \in clients :
        LET req == call[c].req
            sized == req.num_vectors >= 10000 /\ req.num_vectors <= 100000000
            low_latency_fits ==
                /\ req.latency_requirement_ms < 30
                /\ BigLess(BigMul(call[c].hnsw_memory, 10),
                           BigMul(Gb(req.memory_budget_gb), 8))
            gpu_wanted == req.qps_target > 5000 /\ req.has_gpu
        IN  Selected(c) =>
              /\ call[c].selected = "GPU_IVF_FLAT" =>
                    sized /\ ~low_latency_fits /\ gpu_wanted
              /\ (sized /\ low_latency_fits) => call[c].selected = "HNSW"
              /\ ~gpu_wanted =>
                    /\ call[c].selected # "GPU_IVF_FLAT"
                    /\ call[c].result.index_type # "GPU_IVF_FLAT"
              /\ Returned(c) => call[c].result.index_type = call[c].selected

(* rule 3 wins over a matching rule 4 *)
C9_Witness ==
    \E c \in clients :
        /\ call[c].selected = "HNSW"
        /\ call[c].req.qps_target > 5000
        /\ call[c].req.has_gpu
        /\ call[c].req.num_vectors = 500000

(* C10: when rules 1-4 do not match, the budget picks the IVF family by     *)
(* comparison with the probe: IVF_PQ iff budget < 0.5 * probe, IVF_SQ8 iff  *)
(* 0.5 * probe <= budget < 0.7 * probe, IVF_FLAT iff budget >= 0.7 * probe. *)
C10_MemoryPicksIvfFamily ==
    \A c \in clients :
        LET req == call[c].req
            probe == call[c].hnsw_memory
            budget == Gb(req.memory_budget_gb)
            below_half == BigLess(BigMul(budget, 2), probe)
            below_seven_tenths == BigLess(BigMul(budget, 10), BigMul(probe, 7))
            past_rules_1_to_4 ==
                /\ Selected(c)
                /\ \A i \in 1..4 : ~RuleMatches(req, i)
        IN  past_rules_1_to_4 =>
              /\ call[c].selected = "IVF_PQ" <=> below_half
              /\ call[c].selected = "IVF_SQ8" <=>
                    (~below_half /\ below_seven_tenths)
              /\ call[c].selected = "IVF_FLAT" <=> ~below_seven_tenths
              /\ call[c].selected \in {"IVF_PQ", "IVF_SQ8", "IVF_FLAT"}
              /\ Returned(c) => call[c].result.index_type = call[c].selected

(* a budget of exactly half the probe: 20 GB against 40 GB *)
C10_Witness ==
    \E c \in clients :
        /\ Returned(c)
        /\ call[c].req.num_vectors = 26214400
        /\ call[c].req.dimensions = 400
        /\ call[c].req.memory_budget_gb = 20
        /\ call[c].hnsw_memory = Gb(40)
        /\ call[c].result.index_type = "IVF_SQ8"

-----------------------------------------------------------------------------
(* The frames of _recommend_hnsw, _recommend_ivf_flat and _recommend_ivf_pq *)
(* that have assigned their parameters and estimates.                       *)
Frames(fn) ==
    {f \in UNION {{call[c].stack[i] : i \in 1..Len(call[c].stack)} :
                    c \in clients} :
        f.fn = fn /\ f.locals.computed}

(* C11: every HNSW parameter set has M = 8 below 100,000 vectors, 16 below *)
(* 1,000,000, 24 below 10,000,000 and 32 from there on, efConstruction =   *)
(* 15 * M and ef = 4 * M.                                                   *)
C11_HnswParams ==
    \A f \in Frames("_recommend_hnsw") :
        LET M == Param(f.locals.params, "M")
        IN  /\ f.num_vectors < 100000 => M = 8
            /\ f.num_vectors >= 100000 /\ f.num_vectors < 1000000 => M = 16
            /\ f.num_vectors >= 1000000 /\ f.num_vectors < 10000000 => M = 24
            /\ f.num_vectors >= 10000000 => M = 32
            /\ Param(f.locals.params, "efConstruction") = 15 * M
            /\ Param(f.locals.params, "ef") = 4 * M

C11_Witness ==
    \E f \in Frames("_recommend_hnsw") :
        /\ f.num_vectors = 500000
        /\ f.locals.params =
               {<<"M", 16>>, <<"efConstruction", 240>>, <<"ef", 64>>}

SeqRange(s) == {s[i] : i \in 1..Len(s)}

(* Every Recommendation the call of client c has produced so far: the one  *)
(* recommend returned, its alternatives, and the alternatives the active    *)
(* builders have collected.                                                 *)
Produced(c) ==
    (IF Returned(c)
     THEN {call[c].result} \cup SeqRange(call[c].result.alternatives)
     ELSE {})
    \cup UNION {SeqRange(call[c].stack[i].alternatives) :
                  i \in 1..Len(call[c].stack)}

(* round(n / d) for n >= 0, d > 0, halves to the even neighbour *)
RoundDiv(n, d) ==
    LET q == n \div d
        r == n % d
    IN  IF 2 * r > d \/ (2 * r = d /\ q % 2 = 1) THEN q + 1 ELSE q

(* round(sqrt(n)) for n >= 0 *)
RoundSqrt(n) ==
    LET s == ISqrt(n)
    IN  IF n - s * s > s THEN s + 1 ELSE s

ClampedIvfParams(params, num_vectors) ==
    LET nlist == Param(params, "nlist")
    IN  /\ nlist = Max(128, Min(RoundSqrt(num_vectors), 16384))
        /\ 128 <= nlist /\ nlist <= 16384
        /\ Param(params, "nprobe") = Max(16, RoundDiv(nlist, 10))

(* C12: for a valid requirement every IVF_FLAT and every IVF_SQ8           *)
(* recommendation, primary or alternative, has nlist =                      *)
(* clamp(round(sqrt(num_vectors)), 128, 16384), hence within [128, 16384],  *)
(* and nprobe = max(16, round(0.1 * nlist)).  The code violates this:       *)
(* _recommend_ivf_sq8 does not clamp nlist, and both builders truncate.     *)
C12_IvfNlistClamped ==
    \A c \in clients :
        (call[c].pc # "idle" /\ ValidRequirement(call[c].req)) =>
            /\ \A r \in Produced(c) :
                  r.index_type \in {"IVF_FLAT", "IVF_SQ8"} =>
                      ClampedIvfParams(r.params, call[c].req.num_vectors)
            /\ \A i \in 1..Len(call[c].stack) :
                  LET f == call[c].stack[i]
                  IN  (f.fn = "_recommend_ivf_flat" /\ f.locals.computed) =>
                          ClampedIvfParams(f.locals.params, f.num_vectors)

(* The largest of 32, 16, 8, 4 that divides dimensions, 8 if none does. *)
LargestPqDivisor(dimensions) ==
    LET divisors == {k \in {32, 16, 8, 4} : dimensions % k = 0}
    IN  IF divisors = {} THEN 8
        ELSE CHOOSE k \in divisors : \A j \in divisors : j <= k

PqParams(params, dimensions) ==
    /\ Param(params, "m") = LargestPqDivisor(dimensions)
    /\ Param(params, "nbits") = 8

(* C13: every IVF_PQ recommendation has m = the largest of {32, 16, 8, 4}  *)
(* that evenly divides dimensions, m = 8 when none of them does, and       *)
(* nbits = 8.                                                               *)
C13_PqSubvectors ==
    \A c \in clients :
        /\ \A r \in Produced(c) :
              r.index_type = "IVF_PQ" =>
                  PqParams(r.params, call[c].req.dimensions)
        /\ \A i \in 1..Len(call[c].stack) :
              LET f == call[c].stack[i]
              IN  (f.fn = "_recommend_ivf_pq" /\ f.locals.computed) =>
                      PqParams(f.locals.params, f.dimensions)

C13_Witness ==
    \E c \in clients :
        /\ Returned(c)
        /\ call[c].result.index_type = "IVF_PQ"
        /\ call[c].req.dimensions = 101
        /\ Param(call[c].result.params, "m") = 8
        /\ Param(call[c].result.params, "nbits") = 8

(* C14: every DISK_ANN recommendation produced for a requirement, primary  *)
(* or alternative, has search_list_size = round(latency_requirement_ms / 2) *)
(* and latency estimate 1.5 * latency_requirement_ms, for the               *)
(* latency_requirement_ms of that requirement.  The code violates this:     *)
(* an alternative is built for 100 ms whatever the requirement says.        *)
C14_DiskannFollowsRequirement ==
    \A c \in clients :
        \A r \in Produced(c) :
            r.index_type = "DISK_ANN" =>
                LET latency_requirement_ms ==
                        call[c].req.latency_requirement_ms
                IN  /\ Param(r.params, "search_list_size") =
                           RoundDiv(latency_requirement_ms, 2)
                    /\ r.query_latency_p95 =
                           Latency(Big(latency_requirement_ms * 3000000), 0)

ExpectedAlternatives(family) ==
    CASE family = "HNSW" -> <<"IVF_FLAT", "DISK_ANN">>
      [] family = "IVF_FLAT" -> <<"HNSW", "IVF_SQ8">>
      [] family = "IVF_PQ" -> <<"IVF_SQ8", "DISK_ANN">>
      [] OTHER -> <<>>

Families(alternatives) ==
    [i \in 1..Len(alternatives) |-> alternatives[i].index_type]

(* C15: the families of the alternatives are fixed by the primary family:  *)
(* HNSW carries [IVF_FLAT, DISK_ANN], IVF_FLAT [HNSW, IVF_SQ8], IVF_PQ      *)
(* [IVF_SQ8, DISK_ANN], and FLAT, DISK_ANN, IVF_SQ8, GPU_IVF_FLAT none.     *)
(* Stated of every Recommendation produced, and of every active builder:    *)
(* what it has collected is the head of its family's list and the builder   *)
(* it is waiting for is the next family of that list.                       *)
C15_AlternativesByFamily ==
    \A c \in clients :
        /\ \A r \in Produced(c) :
              Families(r.alternatives) = ExpectedAlternatives(r.index_type)
        /\ \A i \in 1..Len(call[c].stack) :
              LET f == call[c].stack[i]
                  k == Len(f.alternatives)
              IN  f.fn # "recommend" =>
                    LET expected == ExpectedAlternatives(FamilyOf(f.fn))
                    IN  /\ k <= Len(expected)
                        /\ Families(f.alternatives) = SubSeq(expected, 1, k)
                        /\ i < Len(call[c].stack) =>
                              /\ k < Len(expected)
                              /\ FamilyOf(call[c].stack[i + 1].fn) =
                                     expected[k + 1]

C15_Witness ==
    \E c \in clients :
        /\ Returned(c)
        /\ call[c].result.index_type = "IVF_PQ"
        /\ Families(call[c].result.alternatives) = <<"IVF_SQ8", "DISK_ANN">>
        /\ \A i \in 1..2 : call[c].result.alternatives[i].alternatives = <<>>

WellFormed(r) ==
    /\ r.memory_gb.sg >= 0
    /\ 0 <= r.recall_at_10 /\ r.recall_at_10 <= 100
    /\ 0 <= r.confidence /\ r.confidence <= 100
    /\ r.index_type \in IndexType

(* C16: every Recommendation returned for a valid requirement, and every   *)
(* alternative inside it, has memory_gb >= 0, recall_at_10 and confidence   *)
(* within [0, 1] and a family out of the eight enumerated values.           *)
C16_RecommendationWellFormed ==
    \A c \in clients :
        (call[c].pc # "idle" /\ ValidRequirement(call[c].req)) =>
            \A r \in Produced(c) : WellFormed(r)

C16_Witness ==
    \E c \in clients :
        /\ Returned(c)
        /\ ValidRequirement(call[c].req)
        /\ call[c].result.index_type = "FLAT"
        /\ call[c].result.recall_at_10 = 100
        /\ call[c].result.memory_gb.sg = 1

SameButUseCase(r1, r2) == [r1 EXCEPT !.use_case = r2.use_case] = r2

(* C17: use_case does not influence the result.  Two finished calls whose  *)
(* requirements differ only in use_case end alike: the same Recommendation  *)
(* (family, params, estimates, reason, confidence, alternatives) through    *)
(* the same builder, or the same exception.                                 *)
C17_UseCaseIgnored ==
    \A c1 \in clients, c2 \in clients :
        (Finished(c1) /\ Finished(c2)
         /\ SameButUseCase(call[c1].req, call[c2].req)) =>
            /\ call[c1].pc = call[c2].pc
            /\ call[c1].exc = call[c2].exc
            /\ call[c1].selected = call[c2].selected
            /\ call[c1].result = call[c2].result

C17_Witness ==
    /\ Returned("c1") /\ Returned("c2")
    /\ call["c1"].req.use_case # call["c2"].req.use_case
    /\ SameButUseCase(call["c1"].req, call["c2"].req)
    /\ call["c1"].result.index_type = "IVF_PQ"
    /\ call["c1"].result = call["c2"].result

(* 15 + (nprobe / 32) * 20 ms, in 1/2,000,000 ms *)
NprobeLatency(params) ==
    Latency(BigAdd(Big(30000000),
                   BigMul(Big(Param(params, "nprobe")), 1250000)), 0)

(* C18: the P95 latency estimate of every IVF_FLAT recommendation is       *)
(* 15 + (nprobe / 32) * 20 for the nprobe of its parameter set.  The code   *)
(* violates this: _recommend_ivf_flat computes 10 + num_vectors / 10^6 * 5. *)
C18_IvfFlatLatencyFromNprobe ==
    /\ \A f \in Frames("_recommend_ivf_flat") :
          f.locals.latency_p95 = NprobeLatency(f.locals.params)
    /\ \A c \in clients : \A r \in Produced(c) :
          r.index_type = "IVF_FLAT" =>
              r.query_latency_p95 = NprobeLatency(r.params)

(* C19: with base = num_vectors / 100,000 minutes the build-time estimate  *)
(* of an IVF_PQ recommendation is base * 3, of an IVF_FLAT one base * 2 and *)
(* of an HNSW one base * 3 * (M / 16), so IVF_PQ's is 1.5 times IVF_FLAT's  *)
(* for the same num_vectors.  Times are in 1/72,000,000 minute.  The code   *)
(* violates this: _recommend_ivf_pq computes num_vectors / 80,000 * 3.      *)
C19_BuildTimeFromBase ==
    /\ \A f \in Frames("_recommend_hnsw") :
          f.locals.build_time_min =
              BigMul(Big(f.num_vectors), 135 * Param(f.locals.params, "M"))
    /\ \A f \in Frames("_recommend_ivf_flat") :
          f.locals.build_time_min = BigMul(Big(f.num_vectors), 720 * 2)
    /\ \A f \in Frames("_recommend_ivf_pq") :
          f.locals.build_time_min = BigMul(Big(f.num_vectors), 720 * 3)
    /\ \A c \in clients : \A r \in Produced(c) :
          r.index_type = "IVF_PQ" =>
              /\ r.build_time_min =
                     BigMul(Big(call[c].req.num_vectors), 720 * 3)
              /\ BigMul(r.build_time_min, 2) =
                     BigMul(IvfFlatValue(call[c].req.num_vectors,
                                         call[c].req.dimensions,
                                         <<>>).build_time_min, 3)

-----------------------------------------------------------------------------
(* The migration tool.                                                      *)

(* No source object was inserted into the destination twice. *)
NoDuplicateInsert == \A id \in Ids : mig.dest[id] <= 1

(* A save by a run started with --resume does not lower the offset. *)
CheckpointKept ==
    (mig'.resume /\ mig.checkpoint # NoCheckpoint
     /\ mig'.checkpoint # NoCheckpoint) =>
        mig'.checkpoint >= mig.checkpoint

(* C20: across a migration that is interrupted and resumed with --resume,  *)
(* the offset in the checkpoint never decreases from one save to the next,  *)
(* and no source vector already inserted into the destination is inserted   *)
(* a second time.  The code violates this: a run saves the number of        *)
(* vectors it has migrated itself, counted from zero, as the offset.        *)
C20_CheckpointMonotone == [][CheckpointKept]_vars /\ []NoDuplicateInsert

-----------------------------------------------------------------------------
(* Rule 3 and the HNSW builder.                                             *)

(* The call of _recommend_hnsw that recommend made by rule 3, once it has  *)
(* computed its parameters and estimates.                                   *)
PrimaryHnsw(c) ==
    /\ c \in clients
    /\ call[c].selected = "HNSW"
    /\ Len(call[c].stack) >= 2
    /\ call[c].stack[2].fn = "_recommend_hnsw"
    /\ call[c].stack[2].locals.computed

(* C21: whenever rule 3 selects HNSW for a valid requirement, the          *)
(* memory_gb of the HNSW recommendation, computed with the bucket degree    *)
(* M, is less than memory_budget_gb.  The code violates this: the rule      *)
(* tests the estimate for M = 16 against 80% of the budget, and for short   *)
(* vectors the estimate for M = 32 is more than 1.25 times that.            *)
C21_HnswMemoryWithinBudget ==
    \A c \in clients :
        (PrimaryHnsw(c) /\ ValidRequirement(call[c].req)) =>
            BigLess(call[c].stack[2].locals.memory_gb,
                    Gb(call[c].req.memory_budget_gb))

(* C22: an HNSW parameter set chosen by rule 3 for (num_vectors,           *)
(* dimensions, memory_budget_gb) passes validate_index_config("HNSW", ...)  *)
(* with no errors: M within [1, 64], efConstruction at least 10 * M, and    *)
(* the validator's HNSW memory estimate at most 90% of the budget.  The     *)
(* code violates this: the validator's estimate is larger than the          *)
(* advisor's and can pass 90% of a budget whose 80% the advisor's fits.     *)
C22_AdvisorHnswPassesValidator ==
    \A c \in clients :
        (PrimaryHnsw(c) /\ ValidRequirement(call[c].req)) =>
            LET f == call[c].stack[2]
                result == validate_index_config("HNSW", f.locals.params,
                              "none", f.num_vectors, f.dimensions,
                              call[c].req.memory_budget_gb)
            IN  /\ result.exc = "none"
                /\ result.errors = {}
                /\ "efConstruction below 10x M" \notin result.warnings

(* C23: a node reported over_provisioned is never recommended more memory  *)
(* than it has: recommended_gb <= allocated_gb, and savings_gb,            *)
(* savings_pct and savings_monthly_usd are all non-negative.               *)
C23_OverProvisionedSaves ==
    cap.analysis.status = "over_provisioned" =>
        /\ cap.analysis.recommended_gb <= cap.analysis.allocated_gb
        /\ cap.analysis.savings_gb >= 0
        /\ cap.analysis.savings_pct.num >= 0
        /\ cap.analysis.savings_monthly_usd >= 0

(* C25: _round_to_common_size rounds up: the result is >= size_gb; up to   *)
(* 512 GB it is the smallest common size >= size_gb, above 512 GB it is a  *)
(* multiple of 64 GB that is >= size_gb.                                   *)
C25_RoundsUp ==
    cap.rounded.called =>
        LET size_gb == cap.rounded.size_gb
            result == cap.rounded.result
        IN  /\ result >= size_gb
            /\ size_gb <= 512 * CentiGb =>
                   /\ \E i \in DOMAIN common_sizes : result = common_sizes[i] * CentiGb
                   /\ \A i \in DOMAIN common_sizes :
                          common_sizes[i] * CentiGb >= size_gb => result <= common_sizes[i] * CentiGb
            /\ size_gb > 512 * CentiGb => result % (64 * CentiGb) = 0

(* C24: validate_index_config never raises, whatever the index type and    *)
(* however far out of range the integer parameters are: it always returns  *)
(* a ValidationResult.                                                     *)
C24_ValidatorNeverRaises ==
    val.called => val.result.exc = "none"

-----------------------------------------------------------------------------
(* Dry runs and the counters of the migration loop.                         *)

(* A step that is a run of the tool with dry_run set. *)
DryRunStep == mig'.runs = mig.runs + 1 /\ mig'.dry_run

(* Such a run returns with the destination and the checkpoint as they were. *)
DryRunTouchesNothing ==
    DryRunStep =>
        /\ mig'.pc = "idle"
        /\ ~mig'.dest_client
        /\ mig'.collection = mig.collection
        /\ mig'.dest = mig.dest
        /\ mig'.checkpoint = mig.checkpoint
        /\ mig'.migrated_vectors = 0
        /\ mig'.failed_vectors = 0

(* After a dry run the tool is not in the loop and has counted nothing. *)
DryRunReturned ==
    mig.dry_run =>
        /\ mig.pc = "idle"
        /\ ~mig.dest_client
        /\ mig.migrated_vectors = 0
        /\ mig.failed_vectors = 0

(* C27: with dry_run set, migrate returns, for every source type, before   *)
(* touching the destination: no destination client is created, no          *)
(* collection is created or dropped, no vector is inserted, no checkpoint   *)
(* is written, and migrated_vectors and failed_vectors remain 0.            *)
C27_DryRunTouchesNothing == [][DryRunTouchesNothing]_vars /\ []DryRunReturned

(* A dry run made after an interrupted real run: the collection, its       *)
(* vectors and the checkpoint exist and are left alone.                     *)
C27_Witness ==
    /\ mig.dry_run
    /\ mig.runs >= 2
    /\ mig.collection
    /\ mig.checkpoint # NoCheckpoint
    /\ \E id \in Ids : mig.dest[id] > 0

InLoop(m) == m.pc \in {"fetch", "insert", "save"}

(* The insert of a fetched batch adds the batch to exactly one counter, and *)
(* a failed insert leaves the tool in the loop.                             *)
BatchCountedOnce ==
    (mig.pc = "insert" /\ mig'.pc # "idle") =>
        LET n == Cardinality(mig.batch)
        IN  /\ n > 0
            /\ \/ /\ mig'.migrated_vectors = mig.migrated_vectors + n
                  /\ mig'.failed_vectors = mig.failed_vectors
               \/ /\ mig'.migrated_vectors = mig.migrated_vectors
                  /\ mig'.failed_vectors = mig.failed_vectors + n
            /\ InLoop(mig')

(* When the loop ends, by whatever way, every fetched vector was counted.  *)
LoopEndBalanced ==
    (InLoop(mig) /\ mig'.pc = "idle") =>
        mig'.migrated_vectors + mig'.failed_vectors = mig'.fetched

(* When the loop ends because the source is exhausted or a fetch failed,   *)
(* every fetched vector was counted; when Ctrl-C ends it, only the batch    *)
(* whose insert was pending is in neither counter.                          *)
LoopEndBalancedUnlessInterrupted ==
    (InLoop(mig) /\ mig'.pc = "idle") =>
        LET counted == mig'.migrated_vectors + mig'.failed_vectors
        IN  IF mig'.done \/ mig.pc # "insert"
            THEN counted = mig'.fetched
            ELSE counted + Cardinality(mig.batch) = mig'.fetched

(* C28 as stated: every fetched batch is counted in exactly one of         *)
(* migrated_vectors and failed_vectors, a failed insert does not stop the   *)
(* loop, and when the loop ends migrated_vectors + failed_vectors equals    *)
(* the number of vectors fetched in that run.                               *)
C28_EveryBatchCounted == [][BatchCountedOnce /\ LoopEndBalanced]_vars

(* C28 amended: as above when the loop runs to its end; a loop ended by     *)
(* KeyboardInterrupt while an insert is pending leaves that one batch in    *)
(* neither counter.                                                          *)
C28_EveryBatchCountedUnlessInterrupted == [][BatchCountedOnce /\ LoopEndBalancedUnlessInterrupted]_vars

(* A run that reached the end of the source with both successful and       *)
(* failed inserts.                                                          *)
C28_Witness ==
    /\ mig.done
    /\ mig.migrated_vectors > 0
    /\ mig.failed_vectors > 0
    /\ mig.migrated_vectors + mig.failed_vectors = mig.fetched
    /\ mig.fetched = mig.source

-----------------------------------------------------------------------------
(* Probes and lists.                                                        *)

ProbesWithinLists(params) ==
    (HasParam(params, "nlist") /\ HasParam(params, "nprobe")) =>
        Param(params, "nprobe") <= Param(params, "nlist")

(* C29: for a valid requirement, every Recommendation recommend returns    *)
(* and every alternative whose parameters hold both nlist and nprobe        *)
(* (IVF_FLAT, IVF_SQ8, IVF_PQ, GPU_IVF_FLAT) has nprobe <= nlist; so do the *)
(* parameters an IVF_FLAT builder has computed.                             *)
C29_NprobeAtMostNlist ==
    \A c \in clients :
        ValidRequirement(call[c].req) =>
            /\ \A r \in Produced(c) : ProbesWithinLists(r.params)
            /\ \A i \in 1..Len(call[c].stack) :
                   call[c].stack[i].locals.computed =>
                       ProbesWithinLists(call[c].stack[i].locals.params)

(* recommend returned GPU_IVF_FLAT for 10,000 vectors: 100 lists, 64 probes, *)
(* with an IVF alternative that also holds both parameters.                 *)
C29_Witness ==
    \E c \in clients :
        /\ Returned(c)
        /\ ValidRequirement(call[c].req)
        /\ call[c].req.num_vectors = 10000
        /\ call[c].result.index_type = "GPU_IVF_FLAT"
        /\ Param(call[c].result.params, "nlist") = 100
        /\ Param(call[c].result.params, "nprobe") = 64

-----------------------------------------------------------------------------
(* populate_collection.                                                     *)

CeilDiv(n, d) == (n + d - 1) \div d

(* No insert has raised so far in this call. *)
InsertsSucceeded == pop.inserts = pop.batch_num

PopulateBounded ==
    /\ pop.total_inserted <= pop.num_vectors
    /\ pop.inserts <= CeilDiv(pop.num_vectors, pop.batch_size)
    /\ pop.pc = "insert" =>
           /\ 1 <= pop.current_batch_size
           /\ pop.current_batch_size <= pop.batch_size
    /\ (pop.pc \in {"log", "done"} \/ (pop.pc = "raised" /\ InsertsSucceeded)) =>
           /\ pop.inserts = CeilDiv(pop.num_vectors, pop.batch_size)
           /\ pop.total_inserted = pop.num_vectors

=============================================================================
